---- MODULE Spec2Model ----
(***************************************************************************)
(* A model of codex-sub-agents: the configuration loader (load_config),    *)
(* the alias registry (AgentRegistry) and its tool-name derivation.        *)
(*                                                                         *)
(* A Python str is a sequence of one-character strings, so that the        *)
(* character-level code (re.sub, str.strip, f-strings) is computed and not *)
(* postulated.  A Python dict is a sequence of <<key, value>> pairs in     *)
(* insertion order with distinct keys.                                     *)
(***************************************************************************)
EXTENDS Integers, Sequences, FiniteSets, TLC

VARIABLES
    payload,    \* the content of the root file handed to load_config
    pc,         \* position of the start-up pipeline (cli.main)
    config,     \* the SubAgentConfig returned by load_config
    registry,   \* the fields of the AgentRegistry once constructed
    error,      \* the exception that ended the pipeline, if any
    lookup,     \* the last resolve_tool_name / resolve_cli_alias call
    probe,      \* one direct call of _make_tool_name: alias, used, result
    skill_run,  \* one call of load_agent_skills: the agent directory, the result
    server,     \* the MCP server: its tool-call tasks, lock and transports
    codex_file, \* configure: the target file, the last exit code and report
    envrc,      \* _populate_env_from_envrc: os.environ, .envrc and direnv
    wrapper     \* the codex MCP wrapper: the child's lines, stdout, the exit

vars == <<payload, pc, config, registry, error, lookup, probe,
          skill_run, server, codex_file, envrc, wrapper>>

----------------------------------------------------------------------------
(* Bounds of the model.                                                    *)

MaxLen == 3
MaxAliases == 2
MaxAgents == 2

----------------------------------------------------------------------------
(* Strings.                                                                *)

Lower == {"a","b","c","d","e","f","g","h","i","j","k","l","m",
          "n","o","p","q","r","s","t","u","v","w","x","y","z"}
Upper == {"A","B","C","D","E","F","G","H","I","J","K","L","M",
          "N","O","P","Q","R","S","T","U","V","W","X","Y","Z"}
DigitChars == <<"0","1","2","3","4","5","6","7","8","9">>

\* The character class [A-Za-z0-9_-] of both regular expressions.
LegalChars == Lower \cup Upper \cup {DigitChars[i] : i \in 1..10} \cup {"_", "-"}

\* re.sub(r"[^A-Za-z0-9_-]", "_", alias)
Sanitize(s) == [i \in 1..Len(s) |-> IF s[i] \in LegalChars THEN s[i] ELSE "_"]

RECURSIVE LStrip(_)
LStrip(s) == IF s # <<>> /\ Head(s) = "_" THEN LStrip(Tail(s)) ELSE s

RECURSIVE RStrip(_)
RStrip(s) == IF s # <<>> /\ s[Len(s)] = "_" THEN RStrip(SubSeq(s, 1, Len(s) - 1)) ELSE s

\* a strip that forgets the trailing underscores
StripUnderscores_LeftOnly(s) == LStrip(s)

\* str.strip("_")
StripUnderscores(s) == RStrip(LStrip(s))

\* str(index) inside the f-string, for index >= 0
RECURSIVE IntToStr(_)
IntToStr(n) == IF n < 10 THEN <<DigitChars[n + 1]>>
               ELSE IntToStr(n \div 10) \o <<DigitChars[(n % 10) + 1]>>

\* re.fullmatch(r"[A-Za-z0-9_-]+", candidate)
FullMatch(s) == Len(s) > 0 /\ \A i \in 1..Len(s) : s[i] \in LegalChars

AgentLiteral == <<"a","g","e","n","t">>
FirstIndex == 2

\* the while loop of _make_tool_name, entered with candidate in used
RECURSIVE SuffixLoop(_, _, _)
SuffixLoop(sanitized, used, index) ==
    LET candidate == sanitized \o <<"_">> \o IntToStr(index)
    IN  IF candidate \in used THEN SuffixLoop(sanitized, used, index + 1)
        ELSE candidate

\* F applied to the value of v, which is computed once
Bind(v, F(_)) == CHOOSE r \in {F(x) : x \in {v}} : TRUE

Ok(v) == [kind |-> "ok", value |-> v]
Raise(k, m) == [kind |-> k, value |-> m]

\* _make_tool_name without the `or "agent"` fallback
_make_tool_name_NoFallback(alias, used) ==
    LET sanitized == StripUnderscores(Sanitize(alias))
        candidate == IF sanitized \in used
                     THEN SuffixLoop(sanitized, used, FirstIndex)
                     ELSE sanitized
    IN  IF ~FullMatch(candidate)
        THEN Raise("InvalidConfiguration", "Cannot derive a valid tool name")
        ELSE Ok(candidate)

\* AgentRegistry._make_tool_name(alias, used)
_make_tool_name(alias, used) ==
    LET stripped  == StripUnderscores(Sanitize(alias))
        sanitized == IF stripped = <<>> THEN AgentLiteral ELSE stripped
        candidate == IF sanitized \in used
                     THEN SuffixLoop(sanitized, used, FirstIndex)
                     ELSE sanitized
    IN  IF ~FullMatch(candidate)
        THEN Raise("InvalidConfiguration", "Cannot derive a valid tool name")
        ELSE Ok(candidate)

----------------------------------------------------------------------------
(* Python dicts: <<key, value>> pairs in insertion order.                  *)

DictHas(d, k) == \E i \in 1..Len(d) : d[i][1] = k
DictGet(d, k) == d[CHOOSE i \in 1..Len(d) : d[i][1] = k][2]
\* d[k] = v: a known key keeps its position, a new key goes last
DictSet(d, k, v) ==
    IF DictHas(d, k)
    THEN [i \in 1..Len(d) |-> IF d[i][1] = k THEN <<k, v>> ELSE d[i]]
    ELSE Append(d, <<k, v>>)
DictKeys(d) == {d[i][1] : i \in 1..Len(d)}
DictValues(d) == [i \in 1..Len(d) |-> d[i][2]]

None == [kind |-> "None", value |-> ""]
NoError == [kind |-> "none", value |-> ""]

----------------------------------------------------------------------------
(* SubAgentConfig (config_models.py).                                      *)

LegacyAgentId == <<"d","e","f","a","u","l","t">>

\* SubAgentConfig._agent_map: dict(self.agents), then setdefault("default", self.agent)
_agent_map(cfg) ==
    IF cfg.agent.kind # "None" /\ ~DictHas(cfg.agents, LegacyAgentId)
    THEN Append(cfg.agents, <<LegacyAgentId, cfg.agent.value>>)
    ELSE cfg.agents

\* SubAgentConfig.available_agents
available_agents(cfg) ==
    LET agents == _agent_map(cfg)
    IN  IF agents = <<>>
        THEN Raise("InvalidConfiguration", "Configuration must define at least one agent.")
        ELSE Ok(agents)

----------------------------------------------------------------------------
(* AgentRegistry (agent_runtime.py; cli.py holds the same code).           *)

Whitespace == {" ", "\t"}
IsBlank(line) == \A i \in 1..Len(line) : line[i] \in Whitespace

RECURSIVE LStripWs(_)
LStripWs(s) == IF s # <<>> /\ Head(s) \in Whitespace THEN LStripWs(Tail(s)) ELSE s

RECURSIVE RStripWs(_)
RStripWs(s) ==
    IF s # <<>> /\ s[Len(s)] \in Whitespace THEN RStripWs(SubSeq(s, 1, Len(s) - 1)) ELSE s

\* text.strip().splitlines() for a text held as its sequence of lines: the
\* blank lines at both ends go, the first line loses its leading and the
\* last line its trailing whitespace; "".splitlines() is [].
RECURSIVE DropLeadingBlank(_)
DropLeadingBlank(lines) ==
    IF lines # <<>> /\ IsBlank(Head(lines)) THEN DropLeadingBlank(Tail(lines)) ELSE lines

RECURSIVE DropTrailingBlank(_)
DropTrailingBlank(lines) ==
    IF lines # <<>> /\ IsBlank(lines[Len(lines)])
    THEN DropTrailingBlank(SubSeq(lines, 1, Len(lines) - 1))
    ELSE lines

StripSplitLines(lines) ==
    LET kept == DropTrailingBlank(DropLeadingBlank(lines))
    IN  [i \in 1..Len(kept) |->
            LET l1 == IF i = 1 THEN LStripWs(kept[i]) ELSE kept[i]
            IN  IF i = Len(kept) THEN RStripWs(l1) ELSE l1]

SummaryLimit == 200
SummaryKeep == 197

\* AgentRegistry._summarize_agent: [0] of an empty list raises IndexError
_summarize_agent(blueprint) ==
    LET lines == StripSplitLines(blueprint.settings.instructions)
    IN  IF lines = <<>>
        THEN Raise("IndexError", "list index out of range")
        ELSE LET first == RStripWs(LStripWs(lines[1]))
                 primary_line ==
                     IF Len(first) > SummaryLimit
                     THEN RStripWs(SubSeq(first, 1, SummaryKeep)) \o <<".", ".", ".">>
                     ELSE first
             IN  Ok(blueprint.settings.name \o <<":", " ">> \o primary_line)

\* AgentBlueprint(agent_id, settings, mcp_server_names=list(settings.mcp_servers))
AgentBlueprint(agent_id, settings) ==
    [agent_id |-> agent_id, settings |-> settings,
     mcp_server_names |-> settings.mcp_servers]

AgentAliasEntry(alias, tool_name, blueprint, description, expose) ==
    [alias |-> alias, tool_name |-> tool_name, blueprint |-> blueprint,
     description |-> description, expose_in_tools |-> expose]

\* the state of __init__ while its loops run
InitState(agents) ==
    [tool_entries |-> <<>>,
     aliases_by_agent |-> [i \in 1..Len(agents) |-> <<agents[i][1], <<>> >>],
     used_tool_names |-> {},
     cli_aliases |-> <<>>,
     raised |-> NoError]

\* an iteration that forgets used_tool_names.add(tool_name)
AliasStep_NoUsedAdd(st, blueprints, alias, agent_id) ==
    IF ~DictHas(blueprints, agent_id)
    THEN [st EXCEPT !.raised =
            Raise("InvalidConfiguration", "Alias references unknown agent")]
    ELSE
    LET blueprint == DictGet(blueprints, agent_id)
        made == _make_tool_name(alias, st.used_tool_names)
        summary == _summarize_agent(blueprint)
    IN  IF made.kind # "ok" THEN [st EXCEPT !.raised = made]
        ELSE IF summary.kind # "ok" THEN [st EXCEPT !.raised = summary]
        ELSE [st EXCEPT
                !.tool_entries =
                    DictSet(@, made.value,
                            AgentAliasEntry(alias, made.value, blueprint,
                                            summary.value, TRUE)),
                !.aliases_by_agent =
                    DictSet(@, agent_id, Append(DictGet(@, agent_id), alias))]

\* one iteration of `for alias, agent_id in config.aliases.items()`
AliasStep(st, blueprints, alias, agent_id) ==
    IF ~DictHas(blueprints, agent_id)
    THEN [st EXCEPT !.raised =
            Raise("InvalidConfiguration", "Alias references unknown agent")]
    ELSE
    LET blueprint == DictGet(blueprints, agent_id)
        made == _make_tool_name(alias, st.used_tool_names)
    IN  IF made.kind # "ok" THEN [st EXCEPT !.raised = made]
        ELSE
        LET tool_name == made.value
            summary == _summarize_agent(blueprint)
        IN  IF summary.kind # "ok"
            THEN [st EXCEPT !.raised = summary,
                            !.used_tool_names = @ \cup {tool_name}]
            ELSE
            LET entry == AgentAliasEntry(alias, tool_name, blueprint, summary.value, TRUE)
            IN  [st EXCEPT
                    !.used_tool_names = @ \cup {tool_name},
                    !.tool_entries = DictSet(@, tool_name, entry),
                    !.aliases_by_agent =
                        DictSet(@, agent_id, Append(DictGet(@, agent_id), alias))]

RECURSIVE AliasLoop(_, _, _, _)
AliasLoop(st, blueprints, aliases, i) ==
    IF i > Len(aliases) \/ st.raised.kind # "none" THEN st
    ELSE Bind(AliasStep(st, blueprints, aliases[i][1], aliases[i][2]),
              LAMBDA st2 : AliasLoop(st2, blueprints, aliases, i + 1))

\* `for entry in self.tool_entries.values()`: both keys point at the entry
RECURSIVE CliLoop(_, _, _)
CliLoop(cli, entries, i) ==
    IF i > Len(entries) THEN cli
    ELSE Bind(DictSet(DictSet(cli, entries[i].alias, entries[i]),
                      entries[i].tool_name, entries[i]),
              LAMBDA cli2 : CliLoop(cli2, entries, i + 1))

\* an iteration that derives the fallback name against no used names
FallbackStep_IgnoreUsed(st, agent_id, blueprint) ==
    IF DictHas(st.cli_aliases, agent_id) THEN st
    ELSE
    LET made == _make_tool_name(agent_id, {})
        summary == _summarize_agent(blueprint)
    IN  IF made.kind # "ok" THEN [st EXCEPT !.raised = made]
        ELSE IF summary.kind # "ok" THEN [st EXCEPT !.raised = summary]
        ELSE [st EXCEPT !.cli_aliases =
                DictSet(DictSet(@, agent_id,
                                AgentAliasEntry(agent_id, made.value, blueprint,
                                                summary.value, FALSE)),
                        made.value,
                        AgentAliasEntry(agent_id, made.value, blueprint,
                                        summary.value, FALSE))]

\* one iteration of `for agent_id, blueprint in self._blueprints.items()`
FallbackStep(st, agent_id, blueprint) ==
    IF DictHas(st.cli_aliases, agent_id) THEN st
    ELSE
    LET made == _make_tool_name(agent_id, st.used_tool_names)
    IN  IF made.kind # "ok" THEN [st EXCEPT !.raised = made]
        ELSE
        LET fallback_tool == made.value
            summary == _summarize_agent(blueprint)
        IN  IF summary.kind # "ok" THEN [st EXCEPT !.raised = summary]
            ELSE
            LET entry == AgentAliasEntry(agent_id, fallback_tool, blueprint,
                                         summary.value, FALSE)
            IN  [st EXCEPT !.cli_aliases =
                    DictSet(DictSet(@, agent_id, entry), fallback_tool, entry)]

RECURSIVE FallbackLoop(_, _, _)
FallbackLoop(st, blueprints, i) ==
    IF i > Len(blueprints) \/ st.raised.kind # "none" THEN st
    ELSE Bind(FallbackStep(st, blueprints[i][1], blueprints[i][2]),
              LAMBDA st2 : FallbackLoop(st2, blueprints, i + 1))

\* Code-point order of the characters that tool names and agent ids hold.
OrdSeq == <<" ","!","#","-","0","1","2","3","4","5","6","7","8","9",
            "A","B","C","D","E","F","G","H","I","J","K","L","M",
            "N","O","P","Q","R","S","T","U","V","W","X","Y","Z","_",
            "a","b","c","d","e","f","g","h","i","j","k","l","m",
            "n","o","p","q","r","s","t","u","v","w","x","y","z">>
Ord(c) == CHOOSE i \in 1..Len(OrdSeq) : OrdSeq[i] = c

\* Python's s < t on str
RECURSIVE StrLess(_, _)
StrLess(s, t) ==
    IF t = <<>> THEN FALSE
    ELSE IF s = <<>> THEN TRUE
    ELSE IF Head(s) = Head(t) THEN StrLess(Tail(s), Tail(t))
    ELSE Ord(Head(s)) < Ord(Head(t))

\* sorted(entries, key=lambda e: e.tool_name): a stable insertion sort
RECURSIVE InsertByToolName(_, _)
InsertByToolName(sorted, e) ==
    IF sorted = <<>> THEN <<e>>
    ELSE IF StrLess(e.tool_name, Head(sorted).tool_name)
         THEN <<e>> \o sorted
         ELSE <<Head(sorted)>> \o InsertByToolName(Tail(sorted), e)

RECURSIVE SortedByToolName(_, _)
SortedByToolName(entries, n) ==
    IF n = 0 THEN <<>>
    ELSE Bind(SortedByToolName(entries, n - 1),
              LAMBDA sorted : InsertByToolName(sorted, entries[n]))

\* a descriptor named after the alias instead of the tool name
Tool_ByAlias(entry) == [name |-> entry.alias, description |-> entry.description]

\* mcp_types.Tool(name=entry.tool_name, description=entry.description, ...)
Tool(entry) == [name |-> entry.tool_name, description |-> entry.description]

NoRegistry ==
    [tool_entries |-> <<>>, aliases_by_agent |-> <<>>, cli_aliases |-> <<>>,
     tool_definitions |-> <<>>, blueprints |-> <<>>]

\* the blueprints, cli_aliases and tool_definitions built after the alias loop
FinishRegistry(st1, blueprints) ==
    Bind(FallbackLoop([st1 EXCEPT !.cli_aliases =
                          CliLoop(<<>>, DictValues(st1.tool_entries), 1)],
                      blueprints, 1),
         LAMBDA st3 :
            IF st3.raised.kind # "none" THEN st3.raised
            ELSE Bind(SortedByToolName(DictValues(st3.tool_entries),
                                       Len(st3.tool_entries)),
                      LAMBDA ordered :
                         Ok([tool_entries |-> st3.tool_entries,
                             aliases_by_agent |-> st3.aliases_by_agent,
                             cli_aliases |-> st3.cli_aliases,
                             tool_definitions |->
                                 [i \in 1..Len(ordered) |-> Tool(ordered[i])],
                             blueprints |-> blueprints])))

\* a constructor without the `if not config.aliases` check
BuildFrom_NoAliasCheck(cfg, agents) ==
    Bind([i \in 1..Len(agents) |->
            <<agents[i][1], AgentBlueprint(agents[i][1], agents[i][2])>>],
         LAMBDA blueprints :
            Bind(AliasLoop(InitState(agents), blueprints, cfg.aliases, 1),
                 LAMBDA st1 :
                    IF st1.raised.kind # "none" THEN st1.raised
                    ELSE FinishRegistry(st1, blueprints)))

\* the body of __init__ once available_agents() has returned
BuildFrom(cfg, agents) ==
    Bind([i \in 1..Len(agents) |->
            <<agents[i][1], AgentBlueprint(agents[i][1], agents[i][2])>>],
         LAMBDA blueprints :
            IF cfg.aliases = <<>>
            THEN Raise("InvalidConfiguration", "No aliases defined in [aliases].")
            ELSE Bind(AliasLoop(InitState(agents), blueprints, cfg.aliases, 1),
                      LAMBDA st1 :
                         IF st1.raised.kind # "none" THEN st1.raised
                         ELSE FinishRegistry(st1, blueprints)))

\* AgentRegistry.__init__(config): the registry, or the exception it raises
AgentRegistry(cfg) ==
    Bind(available_agents(cfg),
         LAMBDA avail :
            IF avail.kind # "ok" THEN avail ELSE BuildFrom(cfg, avail.value))

\* AgentRegistry.resolve_tool_name
resolve_tool_name(reg, tool_name) ==
    IF ~DictHas(reg.tool_entries, tool_name)
    THEN Raise("InvalidConfiguration", "Unknown tool")
    ELSE Ok(DictGet(reg.tool_entries, tool_name))

\* AgentRegistry.resolve_cli_alias
resolve_cli_alias(reg, alias) ==
    IF ~DictHas(reg.cli_aliases, alias)
    THEN Raise("InvalidConfiguration", "Unknown agent")
    ELSE Ok(DictGet(reg.cli_aliases, alias))

----------------------------------------------------------------------------
(* Skills (skill_loader.py; config_loader.py holds the same code).         *)
(* A text file is the sequence of its lines.                               *)

\* str.strip()
StripWs(s) == RStripWs(LStripWs(s))

Delimiter == <<"-","-","-">>
IsDelimiter(line) == StripWs(line) = Delimiter

\* content.lstrip().splitlines(): leading blank lines go, the first line
\* left loses its leading whitespace
LStripLines(lines) ==
    LET kept == DropLeadingBlank(lines)
    IN  IF kept = <<>> THEN <<>> ELSE <<LStripWs(Head(kept))>> \o Tail(kept)

\* _strip_quotes(value)
_strip_quotes(value) ==
    LET v == StripWs(value)
    IN  IF v # <<>> /\ (\/ (Head(v) = "\"" /\ v[Len(v)] = "\"")
                       \/ (Head(v) = "'" /\ v[Len(v)] = "'"))
        THEN SubSeq(v, 2, Len(v) - 1)
        ELSE v

HasColon(line) == \E p \in 1..Len(line) : line[p] = ":"
FirstColon(line) == CHOOSE p \in 1..Len(line) :
                       line[p] = ":" /\ \A q \in 1..(p - 1) : line[q] # ":"

\* the loop of _parse_skill_manifest over the manifest lines
RECURSIVE ManifestLoop(_, _, _)
ManifestLoop(manifest, lines, i) ==
    IF i > Len(lines) THEN Ok(manifest)
    ELSE LET line == StripWs(lines[i])
         IN  IF line = <<>> \/ Head(line) = "#"
             THEN ManifestLoop(manifest, lines, i + 1)
             ELSE IF ~HasColon(line)
             THEN Raise("InvalidConfiguration",
                        "manifest lines must use 'key: value' syntax.")
             ELSE Bind(DictSet(manifest,
                               StripWs(SubSeq(line, 1, FirstColon(line) - 1)),
                               _strip_quotes(SubSeq(line, FirstColon(line) + 1,
                                                    Len(line)))),
                       LAMBDA m2 : ManifestLoop(m2, lines, i + 1))

NameKey == <<"n","a","m","e">>
DescriptionKey == <<"d","e","s","c","r","i","p","t","i","o","n">>

\* manifest.get(required) is missing or empty
Undeclared(manifest, required) ==
    ~DictHas(manifest, required) \/ DictGet(manifest, required) = <<>>

\* _parse_skill_manifest(lines, skill_file)
_parse_skill_manifest(lines) ==
    Bind(ManifestLoop(<<>>, lines, 1),
         LAMBDA parsed :
            IF parsed.kind # "ok" THEN parsed
            ELSE IF Undeclared(parsed.value, NameKey)
            THEN Raise("InvalidConfiguration", "must declare 'name' in the manifest.")
            ELSE IF Undeclared(parsed.value, DescriptionKey)
            THEN Raise("InvalidConfiguration",
                       "must declare 'description' in the manifest.")
            ELSE parsed)

\* the index of the first delimiter line after the opening one, 0 if none
ClosingIndex(lines) ==
    IF \E i \in 2..Len(lines) : IsDelimiter(lines[i])
    THEN CHOOSE i \in 2..Len(lines) :
            IsDelimiter(lines[i]) /\ \A j \in 2..(i - 1) : ~IsDelimiter(lines[j])
    ELSE 0

\* _split_skill_file(content, skill_file): <<manifest, body>>
_split_skill_file(content) ==
    LET lines == LStripLines(content)
        closing_index == ClosingIndex(lines)
        manifest == _parse_skill_manifest(SubSeq(lines, 2, closing_index - 1))
        body == StripSplitLines(SubSeq(lines, closing_index + 1, Len(lines)))
    IN  IF lines = <<>> \/ ~IsDelimiter(lines[1])
        THEN Raise("InvalidConfiguration",
                   "must begin with a frontmatter block delimited by '---'.")
        ELSE IF closing_index = 0
        THEN Raise("InvalidConfiguration",
                   "frontmatter is missing a closing '---' delimiter.")
        ELSE IF manifest.kind # "ok" THEN manifest
        ELSE IF body = <<>>
        THEN Raise("InvalidConfiguration",
                   "must include instructional content after the manifest.")
        ELSE Ok(<<manifest.value, body>>)

\* File and directory names in code-point order ("S" < "a" < "n" < "s").
NameOrder == <<"SKILL.md", "a.txt", "notes.md", "sub">>
NameOrd(n) == CHOOSE i \in 1..Len(NameOrder) : NameOrder[i] = n
ManifestName == "SKILL.md"

\* Path.__lt__: the paths' parts compared as tuples
RECURSIVE PathLess(_, _)
PathLess(p, q) ==
    IF q = <<>> THEN FALSE
    ELSE IF p = <<>> THEN TRUE
    ELSE IF Head(p) = Head(q) THEN PathLess(Tail(p), Tail(q))
    ELSE NameOrd(Head(p)) < NameOrd(Head(q))

\* sorted(path for path in skill_dir.rglob("*") if path.is_file())
RECURSIVE SortedFiles(_)
SortedFiles(files) ==
    IF files = {} THEN <<>>
    ELSE LET first == CHOOSE f \in files :
                         \A g \in files : g = f \/ PathLess(f.path, g.path)
         IN  <<first>> \o SortedFiles(files \ {first})

\* AgentSkillAttachment(filename, relative_path, absolute_path, size_bytes);
\* a path is the sequence of its parts
AgentSkillAttachment(slug, file) ==
    [filename |-> file.path[Len(file.path)],
     relative_path |-> file.path,
     absolute_path |-> <<slug>> \o file.path,
     size_bytes |-> file.size_bytes]

\* the attachments loop: every file but those named SKILL.md
RECURSIVE AttachmentsLoop(_, _, _)
AttachmentsLoop(slug, candidates, i) ==
    IF i > Len(candidates) THEN <<>>
    ELSE IF candidates[i].path[Len(candidates[i].path)] = ManifestName
    THEN AttachmentsLoop(slug, candidates, i + 1)
    ELSE <<AgentSkillAttachment(slug, candidates[i])>>
            \o AttachmentsLoop(slug, candidates, i + 1)

\* sorted(p for p in skills_parent.iterdir() if p.is_dir())
RECURSIVE SortedSkillDirs(_)
SortedSkillDirs(entries) ==
    IF entries = {} THEN <<>>
    ELSE LET first == CHOOSE e \in entries :
                         \A g \in entries : g = e \/ StrLess(e.slug, g.slug)
         IN  <<first>> \o SortedSkillDirs(entries \ {first})

\* a loader that skips a skill directory without SKILL.md
RECURSIVE SkillsLoop_SkipMissing(_, _, _)
SkillsLoop_SkipMissing(skills, dirs, i) ==
    IF i > Len(dirs) THEN Ok(skills)
    ELSE IF dirs[i].skill_md.kind # "ok"
    THEN SkillsLoop_SkipMissing(skills, dirs, i + 1)
    ELSE Bind(_split_skill_file(dirs[i].skill_md.value),
              LAMBDA split :
                 IF split.kind # "ok" THEN split
                 ELSE SkillsLoop_SkipMissing(
                         Append(skills,
                                [slug |-> dirs[i].slug,
                                 name |-> DictGet(split.value[1], NameKey),
                                 description |-> DictGet(split.value[1], DescriptionKey),
                                 instructions |-> split.value[2],
                                 directory |-> dirs[i].slug,
                                 attachments |->
                                    AttachmentsLoop(dirs[i].slug,
                                                    SortedFiles(dirs[i].files), 1)]),
                         dirs, i + 1))

\* the loop of load_agent_skills over the sorted skill directories
RECURSIVE SkillsLoop(_, _, _)
SkillsLoop(skills, dirs, i) ==
    IF i > Len(dirs) THEN Ok(skills)
    ELSE IF dirs[i].skill_md.kind # "ok"
    THEN Raise("InvalidConfiguration", "Skill directory is missing SKILL.md.")
    ELSE Bind(_split_skill_file(dirs[i].skill_md.value),
              LAMBDA split :
                 IF split.kind # "ok" THEN split
                 ELSE SkillsLoop(
                         Append(skills,
                                [slug |-> dirs[i].slug,
                                 name |-> DictGet(split.value[1], NameKey),
                                 description |-> DictGet(split.value[1], DescriptionKey),
                                 instructions |-> split.value[2],
                                 directory |-> dirs[i].slug,
                                 attachments |->
                                    AttachmentsLoop(dirs[i].slug,
                                                    SortedFiles(dirs[i].files), 1)]),
                         dirs, i + 1))

\* load_agent_skills(agent_path): agent_path.skills is None when the agent
\* directory has no skills directory, else the entries of that directory
load_agent_skills(agent_path) ==
    IF agent_path.skills.kind # "ok" THEN Ok(<<>>)
    ELSE SkillsLoop(<<>>,
                    SortedSkillDirs({e \in agent_path.skills.value : e.is_dir}),
                    1)

----------------------------------------------------------------------------
(* load_config (config_loader.py).                                         *)
(* A payload field that is absent is None, a present one is Ok(value).     *)
(* agent_files_type is "list", or "truthy" / "falsy" for a value of        *)
(* another type; agents_type is "table" or "other"; an agent_files entry   *)
(* that is a string is the directory it names.                             *)

\* _load_markdown: read_text().strip(), missing or empty is an error
_load_markdown(file) ==
    IF file.kind = "None"
    THEN Raise("InvalidConfiguration", "Agent directory is missing a markdown file")
    ELSE LET content == StripSplitLines(file.value)
         IN  IF content = <<>>
             THEN Raise("InvalidConfiguration", "markdown file must not be empty")
             ELSE Ok(content)

\* a TOML value: its type and, for the types the loader reads, its content
Toml(type, value) == [type |-> type, value |-> value]

\* _normalize_mcp_servers, the list branch
RECURSIVE ServerListLoop(_, _, _)
ServerListLoop(servers, raw_value, index) ==
    IF index > Len(raw_value) THEN Ok(servers)
    ELSE IF raw_value[index].type # "str" \/ StripWs(raw_value[index].value) = <<>>
    THEN Raise("InvalidConfiguration",
               "mcp_servers[index] must be a non-empty string when defined as a list.")
    ELSE ServerListLoop(Append(servers, StripWs(raw_value[index].value)),
                        raw_value, index + 1)

\* _normalize_mcp_servers, the table branch: <<name, enabled>> items
RECURSIVE ServerTableLoop(_, _, _)
ServerTableLoop(servers, raw_value, index) ==
    IF index > Len(raw_value) THEN Ok(servers)
    ELSE IF StripWs(raw_value[index][1]) = <<>>
    THEN Raise("InvalidConfiguration", "mcp_servers keys must be non-empty strings.")
    ELSE ServerTableLoop(IF raw_value[index][2]
                         THEN Append(servers, StripWs(raw_value[index][1]))
                         ELSE servers,
                         raw_value, index + 1)

\* _normalize_mcp_servers(raw_value)
_normalize_mcp_servers(raw_value) ==
    IF raw_value.kind = "None" THEN Ok(<<>>)
    ELSE IF raw_value.value.type = "list"
    THEN ServerListLoop(<<>>, raw_value.value.value, 1)
    ELSE IF raw_value.value.type = "table"
    THEN ServerTableLoop(<<>>, raw_value.value.value, 1)
    ELSE Raise("InvalidConfiguration",
               "mcp_servers must be declared as a list of strings or a table of booleans.")

SkillLiteral == <<"s","k","i","l","l">>
SkillPrefix == SkillLiteral \o <<"_">>
StartsWith(s, prefix) ==
    Len(s) >= Len(prefix) /\ SubSeq(s, 1, Len(prefix)) = prefix

\* AgentSkill.tool_name
tool_name(skill) ==
    LET stripped == StripUnderscores(Sanitize(skill.slug))
        sanitized == IF stripped = <<>> THEN SkillLiteral ELSE stripped
    IN  IF StartsWith(sanitized, SkillPrefix) THEN sanitized
        ELSE SkillPrefix \o sanitized

\* the grave accent U+0060, a character that a TLA+ string cannot hold
Backtick == "U+0060"
SkillsHeading == <<"#","#"," ","A","v","a","i","l","a","b","l","e"," ","S","k","i","l",
    "l","s">>
SkillsAdvice ==
    <<" ","C","a","l","l"," ","t","h","e"," ","t","o","o","l"," ","w","i",
    "t","h"," ","i","n","t","e","n","t","=","'","f","u","l","l","'"," ",
    "t","o"," ","r","e","a","d"," ","t","h","e"," ","e","n","t","i","r",
    "e"," ","s","k","i","l","l"," ","a","n","d"," ","a","n","y"," ","a",
    "t","t","a","c","h","m","e","n","t","s",".">>

\* render_skill_section(skills) for a non-empty list: the lines it joins
render_skill_section(skills) ==
    << <<>>, SkillsHeading, <<>> >> \o
    [i \in 1..Len(skills) |->
        <<"-"," ","*","*">> \o skills[i].name
            \o <<"*","*"," ","(","t","o","o","l"," ",Backtick>> \o tool_name(skills[i])
            \o <<Backtick,")",":"," ">> \o skills[i].description \o SkillsAdvice]

\* text + "\n".join(lines): the first joined line continues the last line
AppendJoined(text, lines) ==
    SubSeq(text, 1, Len(text) - 1)
        \o <<text[Len(text)] \o Head(lines)>> \o Tail(lines)

\* _load_agent_dir: <<agent_id, agent_data>> of one agent directory.
\* dir.agent is the type of the agent key of agent.toml, or absent when the
\* settings are top-level keys; mcp_servers is the key inside the settings,
\* top_mcp_servers the top-level key next to an agent table.
_load_agent_dir(dir) ==
    IF ~dir.is_dir
    THEN Raise("InvalidConfiguration", "Agent path must be a directory")
    ELSE IF dir.toml = "missing"
    THEN Raise("InvalidConfiguration", "Agent file not found")
    ELSE IF dir.toml = "malformed"
    THEN Raise("InvalidConfiguration", "Failed to parse agent file")
    ELSE IF dir.id.kind # "ok" \/ dir.id.value = <<>>
    THEN Raise("InvalidConfiguration", "Agent file is missing a non-empty 'id' field.")
    ELSE IF dir.agent \notin {"absent", "table"}
    THEN Raise("InvalidConfiguration",
               "Agent file must define agent settings under an 'agent' table.")
    ELSE
    LET raw_servers == IF dir.mcp_servers.kind = "None" /\ dir.agent = "table"
                       THEN dir.top_mcp_servers
                       ELSE dir.mcp_servers
        servers == _normalize_mcp_servers(raw_servers)
        instructions_text == _load_markdown(dir.instructions_md)
        skills == load_agent_skills(dir)
        default_prompt == _load_markdown(dir.default_prompt_md)
    IN  IF servers.kind # "ok" THEN servers
        ELSE IF instructions_text.kind # "ok" THEN instructions_text
        ELSE IF skills.kind # "ok" THEN skills
        ELSE IF default_prompt.kind # "ok" THEN default_prompt
        ELSE Ok(<<dir.id.value,
                  [name |-> dir.name,
                   instructions |->
                      Ok(IF skills.value # <<>>
                         THEN AppendJoined(instructions_text.value,
                                           render_skill_section(skills.value))
                         ELSE instructions_text.value),
                   default_prompt |-> Ok(default_prompt.value),
                   mcp_servers |-> servers.value,
                   skills |-> skills.value]>>)

\* a best-effort loop that leaves out the directories that fail to load
RECURSIVE AgentFilesLoop_SkipBroken(_, _, _)
AgentFilesLoop_SkipBroken(agents_table, agent_files, i) ==
    IF i > Len(agent_files) THEN Ok(agents_table)
    ELSE IF ~agent_files[i].is_str
    THEN Raise("InvalidConfiguration", "agent_files[index] must be a string path.")
    ELSE Bind(_load_agent_dir(agent_files[i]),
              LAMBDA loaded :
                 IF loaded.kind # "ok"
                 THEN AgentFilesLoop_SkipBroken(agents_table, agent_files, i + 1)
                 ELSE IF DictHas(agents_table, loaded.value[1])
                 THEN Raise("InvalidConfiguration", "Duplicate agent id")
                 ELSE Bind(DictSet(agents_table, loaded.value[1], loaded.value[2]),
                           LAMBDA table2 :
                              AgentFilesLoop_SkipBroken(table2, agent_files, i + 1)))

\* the loop over agent_files: the merged agents table, or the first error
RECURSIVE AgentFilesLoop(_, _, _)
AgentFilesLoop(agents_table, agent_files, i) ==
    IF i > Len(agent_files) THEN Ok(agents_table)
    ELSE IF ~agent_files[i].is_str
    THEN Raise("InvalidConfiguration", "agent_files[index] must be a string path.")
    ELSE Bind(_load_agent_dir(agent_files[i]),
              LAMBDA loaded :
                 IF loaded.kind # "ok" THEN loaded
                 ELSE IF DictHas(agents_table, loaded.value[1])
                 THEN Raise("InvalidConfiguration", "Duplicate agent id")
                 ELSE Bind(DictSet(agents_table, loaded.value[1], loaded.value[2]),
                           LAMBDA table2 : AgentFilesLoop(table2, agent_files, i + 1)))

ApiFlavors == {"responses", "chat_completions"}

\* AgentSettings: name, instructions and default_prompt are required str fields
SettingsValid(raw) ==
    /\ raw.name.kind = "ok"
    /\ raw.instructions.kind = "ok"
    /\ raw.default_prompt.kind = "ok"

AgentSettings(raw) ==
    [name |-> raw.name.value, instructions |-> raw.instructions.value,
     default_prompt |-> raw.default_prompt.value, mcp_servers |-> raw.mcp_servers,
     skills |-> raw.skills]

\* SubAgentConfig.model_validate(payload): the config, or ValidationError
model_validate(p) ==
    IF \/ p.default_api \notin ApiFlavors
       \/ p.agents_type # "table"
       \/ (p.agent.kind = "ok" /\ ~SettingsValid(p.agent.value))
       \/ \E i \in 1..Len(p.agents) : ~SettingsValid(p.agents[i][2])
    THEN Raise("ValidationError", "schema violation")
    ELSE Ok([default_api |-> p.default_api,
             agent |-> IF p.agent.kind = "ok" THEN Ok(AgentSettings(p.agent.value)) ELSE None,
             agents |-> [i \in 1..Len(p.agents) |->
                            <<p.agents[i][1], AgentSettings(p.agents[i][2])>>],
             default_agent_id |-> p.default_agent_id,
             aliases |-> p.aliases,
             mcp_servers |-> p.mcp_servers])

CodexName == <<"c","o","d","e","x">>
DocsName == <<"d","o","c","s">>

\* the payload after `default_agent` has been copied to `default_agent_id`
WithDefaultAgentId(p) ==
    IF p.default_agent.kind = "ok" /\ p.default_agent_id.kind = "None"
    THEN [p EXCEPT !.default_agent_id = p.default_agent]
    ELSE p

\* a loader that also rejects an empty aliases table
ValidateAndCheck_RejectNoAliases(p) ==
    Bind(model_validate(p),
         LAMBDA cfg :
            IF cfg.kind # "ok"
            THEN Raise("InvalidConfiguration", "Invalid configuration")
            ELSE IF ~DictHas(cfg.value.mcp_servers, CodexName)
            THEN Raise("InvalidConfiguration", "Missing required MCP server 'codex'.")
            ELSE IF cfg.value.aliases = <<>>
            THEN Raise("InvalidConfiguration", "No aliases defined in [aliases].")
            ELSE cfg)

\* a loader that looks for the codex transport before validating the schema
ValidateAndCheck_CodexFirst(p) ==
    IF ~DictHas(p.mcp_servers, CodexName)
    THEN Raise("InvalidConfiguration", "Missing required MCP server 'codex'.")
    ELSE Bind(model_validate(p),
              LAMBDA cfg :
                 IF cfg.kind # "ok"
                 THEN Raise("InvalidConfiguration", "Invalid configuration")
                 ELSE cfg)

\* load_config from model_validate on
ValidateAndCheck(p) ==
    Bind(model_validate(p),
         LAMBDA cfg :
            IF cfg.kind # "ok"
            THEN Raise("InvalidConfiguration", "Invalid configuration")
            ELSE IF ~DictHas(cfg.value.mcp_servers, CodexName)
            THEN Raise("InvalidConfiguration", "Missing required MCP server 'codex'.")
            ELSE cfg)

\* load_config(config_path): the SubAgentConfig, or InvalidConfiguration
load_config(p) ==
    IF ~p.parses
    THEN Raise("InvalidConfiguration", "Failed to parse TOML configuration")
    ELSE Bind(IF \/ p.agent_files_type = "falsy"
                 \/ (p.agent_files_type = "list" /\ p.agent_files = <<>>)
              THEN Ok(p.agents)
              ELSE IF p.agent_files_type # "list"
              THEN Raise("InvalidConfiguration",
                         "'agent_files' must be a list of file paths.")
              ELSE IF p.agents_type # "table"
              THEN Raise("InvalidConfiguration", "'agents' section must be a table.")
              ELSE AgentFilesLoop(p.agents, p.agent_files, 1),
              LAMBDA merged :
                 IF merged.kind # "ok" THEN merged
                 ELSE ValidateAndCheck(
                         WithDefaultAgentId([p EXCEPT !.agents = merged.value])))

----------------------------------------------------------------------------
(* SubAgentConfig.resolve_agent.                                           *)

\* sorted(agents)[0]: the smallest key in code-point order
SmallestKey(agents) ==
    CHOOSE k \in DictKeys(agents) :
        \A other \in DictKeys(agents) : other = k \/ StrLess(k, other)

\* Python truthiness of an Optional[str]: neither None nor ""
Truthy(opt) == opt.kind = "ok" /\ opt.value # <<>>

\* a resolve_agent that falls back to the smallest id on a dangling default
resolve_agent_DefaultIgnored(cfg, agent_id) ==
    LET avail == available_agents(cfg)
        agents == avail.value
        resolved_id == IF DictHas(cfg.aliases, agent_id.value)
                       THEN DictGet(cfg.aliases, agent_id.value)
                       ELSE agent_id.value
    IN  IF avail.kind # "ok" THEN avail
        ELSE IF Truthy(agent_id)
        THEN IF ~DictHas(agents, resolved_id)
             THEN Raise("InvalidConfiguration", "Agent not found")
             ELSE Ok(<<resolved_id, DictGet(agents, resolved_id)>>)
        ELSE IF Truthy(cfg.default_agent_id)
                /\ DictHas(agents, cfg.default_agent_id.value)
        THEN Ok(<<cfg.default_agent_id.value,
                  DictGet(agents, cfg.default_agent_id.value)>>)
        ELSE Ok(<<SmallestKey(agents), DictGet(agents, SmallestKey(agents))>>)

\* a resolve_agent that takes the first declared agent, not the smallest id
resolve_agent_FirstDeclared(cfg, agent_id) ==
    LET avail == available_agents(cfg)
        agents == avail.value
        resolved_id == IF DictHas(cfg.aliases, agent_id.value)
                       THEN DictGet(cfg.aliases, agent_id.value)
                       ELSE agent_id.value
    IN  IF avail.kind # "ok" THEN avail
        ELSE IF Truthy(agent_id)
        THEN IF ~DictHas(agents, resolved_id)
             THEN Raise("InvalidConfiguration", "Agent not found")
             ELSE Ok(<<resolved_id, DictGet(agents, resolved_id)>>)
        ELSE IF Truthy(cfg.default_agent_id)
        THEN IF ~DictHas(agents, cfg.default_agent_id.value)
             THEN Raise("InvalidConfiguration", "default_agent is not defined in agents.")
             ELSE Ok(<<cfg.default_agent_id.value,
                       DictGet(agents, cfg.default_agent_id.value)>>)
        ELSE Ok(<<agents[1][1], agents[1][2]>>)

\* SubAgentConfig.resolve_agent(agent_id): (id, settings), or the exception
resolve_agent(cfg, agent_id) ==
    LET avail == available_agents(cfg)
        agents == avail.value
        resolved_id == IF DictHas(cfg.aliases, agent_id.value)
                       THEN DictGet(cfg.aliases, agent_id.value)
                       ELSE agent_id.value
    IN  IF avail.kind # "ok" THEN avail
        ELSE IF Truthy(agent_id)
        THEN IF ~DictHas(agents, resolved_id)
             THEN Raise("InvalidConfiguration", "Agent not found")
             ELSE Ok(<<resolved_id, DictGet(agents, resolved_id)>>)
        ELSE IF Truthy(cfg.default_agent_id)
        THEN IF ~DictHas(agents, cfg.default_agent_id.value)
             THEN Raise("InvalidConfiguration", "default_agent is not defined in agents.")
             ELSE Ok(<<cfg.default_agent_id.value,
                       DictGet(agents, cfg.default_agent_id.value)>>)
        ELSE Ok(<<SmallestKey(agents), DictGet(agents, SmallestKey(agents))>>)

----------------------------------------------------------------------------
(* The inputs the model draws from.                                        *)

\* alias strings: empty, all illegal, legal, and two that sanitize to "a"
AliasPool == {<<>>, <<"!">>, <<"a">>, <<"a","!">>, <<"a","#">>}
AgentIdPool == {<<"a">>, <<"a","!">>, <<"a","#">>}

GoodSettings ==
    [name |-> Ok(<<"D","e","m","o">>),
     instructions |-> Ok(<< <<" ","G","o","."," ">>, <<"M","o","r","e">> >>),
     default_prompt |-> Ok(<< <<"K","i","c","k">> >>),
     mcp_servers |-> <<CodexName>>,
     skills |-> <<>>]
\* instructions = " ": accepted by the schema, blank after trimming
BlankSettings == [GoodSettings EXCEPT !.instructions = Ok(<< <<" ">> >>)]
SettingsPool == {GoodSettings, BlankSettings}

\* all dicts of at most n entries with keys from K and values from V
DictsOver(K, V, n) ==
    UNION {{d \in [1..k -> K \X V] :
               \A i, j \in 1..k : i # j => d[i][1] # d[j][1]} : k \in 0..n}

StdioTransport == [type |-> "stdio"]
McpPool == {<<>>,
            << <<CodexName, StdioTransport>> >>,
            << <<DocsName, StdioTransport>> >>,
            << <<CodexName, StdioTransport>>, <<DocsName, StdioTransport>> >>}

\* SKILL.md files and skill directories
MaxSkillLines == 5

NameLine == NameKey \o <<":", " ", "x">>
DescriptionLine == DescriptionKey \o <<":", " ", "y">>
EmptyNameLine == NameKey \o <<":">>
CommentLine == <<"#", "c">>
PlainLine == <<"j">>
BlankLine == <<" ">>
LinePool == {Delimiter, NameLine, DescriptionLine, EmptyNameLine,
             CommentLine, PlainLine, BlankLine}

PaddedDelimiter == <<" ", "-", "-", "-", " ">>
QuotedNameLine == NameKey \o <<":", " ", "'", "x", "'">>
EmptyQuotedLine == DescriptionKey \o <<":", "\"", "\"">>
GoodSkillFile == <<Delimiter, NameLine, DescriptionLine, Delimiter, PlainLine>>
\* files that need more lines than MaxSkillLines, or other characters
LongSkillFiles ==
    {<<BlankLine, PaddedDelimiter, QuotedNameLine, CommentLine, DescriptionLine,
       BlankLine, PaddedDelimiter, BlankLine, PlainLine, BlankLine>>,
     <<Delimiter, NameLine, EmptyNameLine, DescriptionLine, Delimiter, PlainLine>>,
     <<Delimiter, EmptyNameLine, NameLine, DescriptionLine, Delimiter, PlainLine>>,
     <<Delimiter, NameLine, EmptyQuotedLine, Delimiter, PlainLine>>,
     <<Delimiter, NameLine, DescriptionLine, PlainLine, Delimiter, PlainLine>>,
     <<Delimiter, NameLine, DescriptionLine, Delimiter, PlainLine, Delimiter>>,
     <<Delimiter, NameLine, DescriptionLine, Delimiter, Delimiter, BlankLine>>}

SkillFiles ==
    {[path |-> <<"SKILL.md">>, size_bytes |-> 9],
     [path |-> <<"notes.md">>, size_bytes |-> 0],
     [path |-> <<"sub", "a.txt">>, size_bytes |-> 3],
     [path |-> <<"sub", "SKILL.md">>, size_bytes |-> 5]}

SkillDir(slug, skill_md) ==
    [slug |-> slug, is_dir |-> TRUE, skill_md |-> skill_md,
     files |-> IF skill_md.kind = "ok" THEN SkillFiles
               ELSE SkillFiles \ {[path |-> <<"SKILL.md">>, size_bytes |-> 9]}]
\* a plain file lying in the skills directory
StrayFile == [slug |-> <<"a">>, is_dir |-> FALSE, skill_md |-> None, files |-> {}]
SkillMdPool == {None, Ok(GoodSkillFile), Ok(<<Delimiter, NameLine>>)}

GoodDir ==
    [is_dir |-> TRUE, toml |-> "ok", id |-> Ok(<<"a">>),
     name |-> GoodSettings.name,
     instructions_md |-> GoodSettings.instructions,
     default_prompt_md |-> GoodSettings.default_prompt,
     is_str |-> TRUE, agent |-> "absent",
     mcp_servers |-> Ok(Toml("list", <<Toml("str", CodexName)>>)),
     top_mcp_servers |-> None,
     skills |-> None]
\* default_prompt.md is absent
BrokenDir == [GoodDir EXCEPT !.default_prompt_md = None]
AgentFilesPool == {<<>>, <<GoodDir>>, <<BrokenDir>>}

PaddedCodex == <<" ">> \o CodexName \o <<" ">>
\* values of mcp_servers in agent.toml: lists and tables, well and ill formed
RawServersPool ==
    <<None,
     Ok(Toml("list", <<Toml("str", PaddedCodex), Toml("str", DocsName)>>)),
     Ok(Toml("list", <<Toml("str", CodexName), Toml("int", <<>>)>>)),
     Ok(Toml("list", <<Toml("str", <<" ">>)>>)),
     Ok(Toml("table", << <<PaddedCodex, TRUE>>, <<DocsName, FALSE>> >>)),
     Ok(Toml("table", << <<CodexName, TRUE>>, <<(<<" ">>), TRUE>> >>)),
     Ok(Toml("str", CodexName))>>
SkillsDirPool ==
    <<None,
     Ok({SkillDir(<<"s", "!">>, Ok(GoodSkillFile)), StrayFile}),
     Ok({SkillDir(<<"s">>, Ok(GoodSkillFile)), SkillDir(<<"s", "2">>, None)}),
     Ok({SkillDir(<<"s">>, Ok(<<Delimiter, NameLine, DescriptionLine>>))}),
     Ok({SkillDir(<<"s">>, Ok(<<Delimiter, NameLine, Delimiter, PlainLine>>))}),
     Ok({SkillDir(<<"s">>, Ok(<<Delimiter, NameLine, DescriptionLine, Delimiter>>))})>>

\* agent directories: GoodDir with one thing changed
DirPool ==
    <<GoodDir, BrokenDir,
     [GoodDir EXCEPT !.id = Ok(<<"a","!">>)],
     [GoodDir EXCEPT !.is_str = FALSE],
     [GoodDir EXCEPT !.is_dir = FALSE],
     [GoodDir EXCEPT !.toml = "missing"],
     [GoodDir EXCEPT !.toml = "malformed"],
     [GoodDir EXCEPT !.id = None],
     [GoodDir EXCEPT !.id = Ok(<<>>)],
     [GoodDir EXCEPT !.id = [kind |-> "int", value |-> <<>>]],
     [GoodDir EXCEPT !.agent = "str"],
     [GoodDir EXCEPT !.name = None],
     [GoodDir EXCEPT !.instructions_md = None],
     [GoodDir EXCEPT !.instructions_md = Ok(<< <<" ">>, <<>> >>)],
     [GoodDir EXCEPT !.default_prompt_md = Ok(<<>>)]>>
    \o [i \in 1..Len(RawServersPool) |->
           [GoodDir EXCEPT !.mcp_servers = RawServersPool[i]]]
    \o [i \in 1..Len(RawServersPool) |->
           [GoodDir EXCEPT !.agent = "table", !.mcp_servers = None,
                           !.top_mcp_servers = RawServersPool[i]]]
    \o [i \in 1..Len(SkillsDirPool) |->
           [GoodDir EXCEPT !.skills = SkillsDirPool[i]]]

\* a root file that does not parse has no content
UnparseablePayload ==
    [parses |-> FALSE, default_api |-> "responses",
     agent_files_type |-> "list", agent_files |-> <<>>, agents_type |-> "table",
     agent |-> None, agents |-> <<>>, default_agent |-> None,
     default_agent_id |-> None, aliases |-> <<>>, mcp_servers |-> <<>>]

Payload(api, files, legacy, agents, aliases, mcp) ==
    [parses |-> TRUE, default_api |-> api,
     agent_files_type |-> "list", agent_files |-> files, agents_type |-> "table",
     agent |-> legacy, agents |-> agents, default_agent |-> None,
     default_agent_id |-> None, aliases |-> aliases, mcp_servers |-> mcp]

\* Root files that exercise the loader: every combination of API flavor,
\* agent directory, legacy agent and transports, around at most one inline
\* agent and one alias.
LoaderPayloads(p) ==
    \E api \in {"responses", "bogus"}, files \in AgentFilesPool,
       legacy \in {None, Ok(GoodSettings)}, mcp \in McpPool,
       agents \in DictsOver(AgentIdPool, SettingsPool, 1),
       aliases \in DictsOver(AliasPool, AgentIdPool, 1) :
        p = Payload(api, files, legacy, agents, aliases, mcp)

\* Root files that list agent directories: one or two directories of the
\* pool next to at most one inline agent, and the shapes of agent_files and
\* agents that the loader tells apart.
AgentDirPayloads(p) ==
    \E first \in 1..Len(DirPool), second \in 0..Len(DirPool),
       agents \in DictsOver({<<"a">>}, {GoodSettings}, 1),
       shape \in {<<"list", "table">>, <<"list", "other">>,
                  <<"truthy", "table">>, <<"falsy", "table">>,
                  <<"falsy", "other">>} :
        p = [Payload("responses",
                     IF second = 0 THEN <<DirPool[first]>>
                     ELSE <<DirPool[first], DirPool[second]>>,
                     None,
                     IF shape[2] = "table" THEN agents ELSE <<>>,
                     << <<(<<"a">>), <<"a">>>> >>,
                     << <<CodexName, StdioTransport>> >>)
             EXCEPT !.agent_files_type = shape[1], !.agents_type = shape[2]]

\* Root files that load and exercise the registry: every agent table and
\* alias table within the bounds.
RegistryPayloads(p) ==
    \E agents \in DictsOver(AgentIdPool, SettingsPool, MaxAgents),
       aliases \in DictsOver(AliasPool, AgentIdPool, MaxAliases) :
        p = Payload("responses", <<>>, None, agents, aliases,
                    << <<CodexName, StdioTransport>> >>)

\* values of default_agent / default_agent_id: absent, empty, an id that
\* may or may not be configured, and the legacy agent's id
DefaultPool == {None, Ok(<<>>), Ok(<<"a">>), Ok(<<"a","#">>), Ok(LegacyAgentId)}

\* Root files that load and exercise default-agent selection.
DefaultPayloads(p) ==
    \E agents \in DictsOver(AgentIdPool, {GoodSettings}, MaxAgents),
       legacy \in {None, Ok(GoodSettings)},
       default_agent \in DefaultPool, default_agent_id \in DefaultPool,
       aliases \in {<<>>, << <<(<<"a">>), <<"a","!">>>> >>} :
        p = [Payload("responses", <<>>, legacy, agents, aliases,
                     << <<CodexName, StdioTransport>> >>)
             EXCEPT !.default_agent = default_agent,
                    !.default_agent_id = default_agent_id]

NoConfig == [kind |-> "None", value |-> ""]
NoLookup == [op |-> "none", arg |-> <<>>, result |-> NoError]
NoProbe == [alias |-> <<>>, used |-> {}, result |-> NoError]
\* the parts of the program a behaviour does not run
NoSkillRun == [dir |-> None, result |-> NoError]
NoServer == [tasks |-> <<>>, lock |-> 0, variant |-> "none", environ |-> {},
             unreachable |-> {}]
NoCodexFile == [content |-> None, exit_code |-> -1, report |-> <<>>]
NoEnvrc == [environ |-> <<>>, envrc_exists |-> FALSE]
NoWrapper == [lines |-> <<>>, read |-> 0, stdout |-> <<>>, waited |-> FALSE,
              result |-> NoError]

----------------------------------------------------------------------------
(* The start-up pipeline of cli.main and the registry's lookups.           *)

Init ==
    /\ \/ payload = UnparseablePayload
       \/ LoaderPayloads(payload)
       \/ AgentDirPayloads(payload)
       \/ RegistryPayloads(payload)
       \/ DefaultPayloads(payload)
    /\ pc = "start"
    /\ config = NoConfig
    /\ registry = NoRegistry
    /\ error = NoError
    /\ lookup = NoLookup
    /\ probe = NoProbe
    /\ skill_run = NoSkillRun
    /\ server = NoServer
    /\ codex_file = NoCodexFile
    /\ envrc = NoEnvrc
    /\ wrapper = NoWrapper

\* config = load_config(config_path)
LoadConfig ==
    /\ pc = "start"
    /\ \E loaded \in {load_config(payload)} :
           IF loaded.kind = "ok"
           THEN /\ config' = loaded
                /\ pc' = "loaded"
                /\ error' = error
           ELSE /\ config' = config
                /\ pc' = "load_failed"
                /\ error' = loaded
    /\ UNCHANGED <<payload, registry, lookup, probe, skill_run, server, codex_file, envrc, wrapper>>

\* registry = AgentRegistry(config)
BuildRegistry ==
    /\ pc = "loaded"
    /\ \E built \in {AgentRegistry(config.value)} :
           IF built.kind = "ok"
           THEN /\ registry' = built.value
                /\ pc' = "built"
                /\ error' = error
           ELSE /\ registry' = registry
                /\ pc' = "build_failed"
                /\ error' = built
    /\ UNCHANGED <<payload, config, lookup, probe, skill_run, server, codex_file, envrc, wrapper>>

\* config.resolve_agent(agent_id) on the loaded configuration, by a caller
\* that goes on without a registry; agent_id is None or a string
ResolveAgent ==
    /\ pc = "loaded"
    /\ pc' = "resolved"
    /\ \/ lookup' = [op |-> "resolve_agent(None)", arg |-> <<>>,
                     result |-> resolve_agent(config.value, None)]
       \/ \E agent_id \in {<<>>, <<"a">>, <<"a","!">>} :
             lookup' = [op |-> "resolve_agent", arg |-> agent_id,
                        result |-> resolve_agent(config.value, Ok(agent_id))]
    /\ UNCHANGED <<payload, config, registry, error, probe, skill_run, server, codex_file, envrc, wrapper>>

LookupArgs == AliasPool \cup AgentIdPool \cup DictKeys(registry.cli_aliases)

\* entry = registry.resolve_tool_name(tool_name). Lookups read the registry
\* and never change it, so the result of one does not depend on the lookups
\* before it: a behaviour records the first lookup made on its registry.
ResolveToolName ==
    /\ pc = "built"
    /\ lookup = NoLookup
    /\ \E t \in LookupArgs :
          lookup' = [op |-> "resolve_tool_name", arg |-> t,
                     result |-> resolve_tool_name(registry, t)]
    /\ UNCHANGED <<payload, pc, config, registry, error, probe, skill_run, server, codex_file, envrc, wrapper>>

\* entry = registry.resolve_cli_alias(args.run_agent)
ResolveCliAlias ==
    /\ pc = "built"
    /\ lookup = NoLookup
    /\ \E a \in LookupArgs :
          lookup' = [op |-> "resolve_cli_alias", arg |-> a,
                     result |-> resolve_cli_alias(registry, a)]
    /\ UNCHANGED <<payload, pc, config, registry, error, probe, skill_run, server, codex_file, envrc, wrapper>>

Next ==
    \/ LoadConfig
    \/ BuildRegistry
    \/ ResolveAgent
    \/ ResolveToolName
    \/ ResolveCliAlias

Spec == Init /\ [][Next]_vars

----------------------------------------------------------------------------
(* _make_tool_name called directly, on any alias and any set of used names.*)

ProbeChars == {"a", "2", "_", "-", "!"}
Strings(C, n) == UNION {[1..k -> C] : k \in 0..n}

MaxRun == 10

\* the decimal numerals of one or two digits, read digit by digit
Numerals == UNION {[1..k -> {DigitChars[i] : i \in 1..10}] : k \in 1..2}
DigitValue(c) == (CHOOSE i \in 1..10 : DigitChars[i] = c) - 1
NumberOf(s) == IF Len(s) = 1 THEN DigitValue(s[1])
               ELSE 10 * DigitValue(s[1]) + DigitValue(s[2])
Numeral(k) == CHOOSE s \in Numerals :
                 NumberOf(s) = k /\ (Len(s) > 1 => s[1] # "0")
Suffixed(base, k) == base \o <<"_">> \o Numeral(k)

NamePool == {<<"a">>, <<"a","_","2">>, <<"a","_","3">>, <<"a","_","2","_","2">>,
             AgentLiteral, AgentLiteral \o <<"_","2">>}
\* a, a_2, ..., a_n: the names n aliases that all sanitize to "a" have taken
Run(n) == {<<"a">>} \cup {Suffixed(<<"a">>, k) : k \in 2..n}
UsedSets == SUBSET NamePool \cup {Run(n) : n \in 1..MaxRun}

InitToolName ==
    /\ payload = UnparseablePayload
    /\ pc = "probe"
    /\ config = NoConfig
    /\ registry = NoRegistry
    /\ error = NoError
    /\ lookup = NoLookup
    /\ \E alias \in Strings(ProbeChars, MaxLen), used \in UsedSets :
          probe = [alias |-> alias, used |-> used, result |-> NoError]
    /\ skill_run = NoSkillRun
    /\ server = NoServer
    /\ codex_file = NoCodexFile
    /\ envrc = NoEnvrc
    /\ wrapper = NoWrapper

CallMakeToolName ==
    /\ pc = "probe"
    /\ pc' = "probed"
    /\ probe' = [probe EXCEPT !.result = _make_tool_name(probe.alias, probe.used)]
    /\ UNCHANGED <<payload, config, registry, error, lookup,
                   skill_run, server, codex_file, envrc, wrapper>>

NextToolName == CallMakeToolName

SpecToolName == InitToolName /\ [][NextToolName]_vars

----------------------------------------------------------------------------
(* load_agent_skills called directly on an agent directory.                *)

InitSkills ==
    /\ payload = UnparseablePayload
    /\ pc = "skills"
    /\ config = NoConfig
    /\ registry = NoRegistry
    /\ error = NoError
    /\ lookup = NoLookup
    /\ probe = NoProbe
    /\ \/ skill_run = [dir |-> [skills |-> None], result |-> NoError]
       \/ \E content \in Strings(LinePool, MaxSkillLines) \cup LongSkillFiles :
             skill_run = [dir |-> [skills |-> Ok({SkillDir(<<"s">>, Ok(content)),
                                                  StrayFile})],
                          result |-> NoError]
       \/ \E first \in SkillMdPool, second \in SkillMdPool :
             skill_run = [dir |-> [skills |-> Ok({SkillDir(<<"s", "2">>, first),
                                                  SkillDir(<<"s">>, second)})],
                          result |-> NoError]
    /\ server = NoServer
    /\ codex_file = NoCodexFile
    /\ envrc = NoEnvrc
    /\ wrapper = NoWrapper

LoadAgentSkills ==
    /\ pc = "skills"
    /\ pc' = "skills_done"
    /\ skill_run' = [skill_run EXCEPT !.result = load_agent_skills(skill_run.dir)]
    /\ UNCHANGED <<payload, config, registry, error, lookup, probe,
                   server, codex_file, envrc, wrapper>>

NextSkills == LoadAgentSkills

SpecSkills == InitSkills /\ [][NextSkills]_vars

----------------------------------------------------------------------------
(* serve: tool calls arriving at the MCP server (mcp_server.py, cli.py).   *)
(* A step of a task runs from one await that can suspend to the next.      *)

MaxTasks == 2

ApiName == <<"a","p","i">>
GhostName == <<"g","h","o","s","t">>
TokenVar == "API_TOKEN"
HttpTransport == [type |-> "http", bearer_token_env_var |-> Ok(TokenVar)]

AgentWith(servers) == [GoodSettings EXCEPT !.mcp_servers = servers]
\* a loaded skill whose directory is named slug
ServeSkill(slug) ==
    [slug |-> slug, name |-> <<"x">>, description |-> <<"y">>,
     instructions |-> <<PlainLine>>, directory |-> slug, attachments |-> <<>>]
ServeSkills ==
    <<ServeSkill(<<"d","!","f">>), ServeSkill(SkillPrefix \o <<"x">>),
      ServeSkill(<<"!">>)>>
\* three agents: one with skills naming codex twice, one with an HTTP server
\* behind a bearer token, one naming a server that is not configured
ServePayload ==
    Payload("responses", <<>>, None,
            << <<(<<"a">>), [AgentWith(<<CodexName, CodexName>>)
                              EXCEPT !.skills = ServeSkills]>>,
               <<(<<"b">>), AgentWith(<<CodexName, ApiName>>)>>,
               <<(<<"c">>), AgentWith(<<CodexName, GhostName, ApiName>>)>> >>,
            << <<(<<"a">>), <<"a">>>>, <<(<<"b">>), <<"b">>>>,
               <<(<<"c">>), <<"c">>>> >>,
            << <<CodexName, StdioTransport>>, <<ApiName, HttpTransport>> >>)
ServeConfig == load_config(ServePayload)
ServeRegistry == AgentRegistry(ServeConfig.value)

NoOutcome == [kind |-> "none", isError |-> FALSE, text |-> <<>>]
\* mcp_types.CallToolResult(content=[TextContent(type="text", text=text)], isError)
CallToolResult(text, isError) == [kind |-> "result", isError |-> isError, text |-> text]
\* an exception that leaves handle_call_tool
Escaped(exc) == [kind |-> "escaped", isError |-> TRUE, text |-> <<exc.kind>>]

IdleTask ==
    [pc |-> "idle", tool_name |-> <<>>, request |-> None, entry |-> None,
     names |-> <<>>, opened |-> <<>>, shut |-> <<>>, run |-> "none",
     start_error |-> NoError, agent |-> None, prompt |-> None, run_result |-> NoError, outcome |-> NoOutcome]

\* list(dict.fromkeys(server_names))
RECURSIVE Unique(_)
Unique(names) ==
    IF names = <<>> THEN <<>>
    ELSE LET front == Unique(SubSeq(names, 1, Len(names) - 1))
             last == names[Len(names)]
         IN  IF \E i \in 1..Len(front) : front[i] = last THEN front
             ELSE Append(front, last)

\* what Runner.run hands back: a final output or a blank one, and no last
\* agent or one whose name cannot be read
RunResults ==
    {[final_output |-> Ok(<<"o","k">>), last_agent |-> "none"],
     [final_output |-> Ok(<<" ">>), last_agent |-> "none"],
     [final_output |-> Ok(<<" ">>), last_agent |-> "nameless"]}

\* format_run_result(alias_entry, result)
format_run_result(alias_entry, result) ==
    IF ~IsBlank(result.final_output.value)
    THEN Ok(result.final_output.value)
    ELSE IF result.last_agent = "nameless"
    THEN Raise("AttributeError", "object has no attribute 'name'")
    ELSE Ok(<<"Agent '", alias_entry.alias, "' completed via ",
              alias_entry.blueprint.settings.name,
              ", but no final output was produced.">>)

\* a handler whose try ends before format_run_result
Respond_FormatOutsideTry(alias_entry, ran) ==
    LET text == format_run_result(alias_entry, ran.value)
    IN  IF ran.kind = "ok" /\ text.kind = "ok"
        THEN CallToolResult(text.value, FALSE)
        ELSE IF ran.kind = "ok" THEN Escaped(text)
        ELSE CallToolResult(<<"Agent '", alias_entry.alias, "' failed: ", ran.value>>,
                            TRUE)

\* handle_call_tool from the try on, once run_agent_workflow has returned
\* or raised `ran`: the CallToolResult
Respond(alias_entry, ran) ==
    LET text == format_run_result(alias_entry, ran.value)
    IN  IF ran.kind = "ok" /\ text.kind = "ok"
        THEN CallToolResult(text.value, FALSE)
        ELSE CallToolResult(<<"Agent '", alias_entry.alias, "' failed: ",
                              IF ran.kind # "ok" THEN ran.value ELSE text.value>>,
                            TRUE)

\* a value is falsy for `requested_prompt or ...`: None or ""
Falsy(opt) == opt.kind # "ok" \/ opt.value = <<>>

\* [skill.build_tool() for skill in settings.skills]: the tools' names
BuildTools(skills) == [i \in 1..Len(skills) |-> tool_name(skills[i])]

\* AgentBlueprint.build_agent(tools, mcp_servers) of agent_runtime.py
build_agent(blueprint, tools, mcp_servers) ==
    [name |-> blueprint.settings.name, tools |-> tools,
     mcp_servers |-> mcp_servers]

\* AgentBlueprint.build_agent(mcp_servers) of cli.py: Agent(...) is given no
\* tools, and its tools default to the empty list
cli_build_agent(blueprint, mcp_servers) ==
    [name |-> blueprint.settings.name, tools |-> <<>>,
     mcp_servers |-> mcp_servers]

\* the agent run_agent_workflow builds once its transports are open
BuiltAgent(task) ==
    IF server.variant = "cli"
    THEN cli_build_agent(task.entry.value.blueprint, task.opened)
    ELSE build_agent(task.entry.value.blueprint,
                     BuildTools(task.entry.value.blueprint.settings.skills),
                     task.opened)

\* run_agent_workflow from the try to the await of Runner.run, which gets
\* `requested_prompt or settings.default_prompt`; the cli.py variant reads
\* settings.entry_message, which AgentSettings does not have
BeforeRun(task) ==
    IF server.variant = "cli" /\ Falsy(task.request)
    THEN [task EXCEPT !.pc = "closing",
                      !.agent = Ok(BuiltAgent(task)),
                      !.run_result = Raise("AttributeError",
                                           "'AgentSettings' object has no attribute 'entry_message'")]
    ELSE [task EXCEPT !.pc = "running", !.run = "started",
                      !.agent = Ok(BuiltAgent(task)),
                      !.prompt =
                         Ok(IF Falsy(task.request)
                            THEN task.entry.value.blueprint.settings.default_prompt
                            ELSE task.request.value)]

\* a task that leaves handle_call_tool with `outcome`
Leave(task, outcome) == [task EXCEPT !.pc = "done", !.outcome = outcome]

\* a call_tool request arrives: tool_name and the request argument, which is
\* absent, a string, or a value of another type. Tasks are numbered in the
\* order of their arrival.
Arrive(t) ==
    /\ pc = "serving"
    /\ server.tasks[t].pc = "idle"
    /\ \A u \in 1..(t - 1) : server.tasks[u].pc # "idle"
    /\ \E tool \in {<<"a">>, <<"b">>, <<"c">>, <<"z">>},
          request \in {None, Ok(<<(<<"h","i">>)>>), [kind |-> "int", value |-> <<>>]} :
          server' = [server EXCEPT !.tasks[t].pc = "waiting",
                                   !.tasks[t].tool_name = tool,
                                   !.tasks[t].request = request]
    /\ UNCHANGED <<payload, pc, config, registry, error, lookup, probe,
                   skill_run, codex_file, envrc, wrapper>>

\* a lock that lets every caller in
LockFree_Always == TRUE

\* asyncio.Lock: acquire() goes through when nobody holds the lock
LockFree == server.lock = 0

\* a lock that stays held when the call leaves with an error
LockAfter_KeptOnError(t, after) ==
    IF after.pc = "done" /\ ~after.outcome.isError THEN 0 ELSE t

\* the holder of tool_lock after a step of task t: `async with` releases
\* the lock when the call leaves its block, with a result or an exception
LockAfter(t, after) == IF after.pc = "done" THEN 0 ELSE t

\* async with tool_lock, resolve_tool_name, the request check, and
\* initialize_mcp_servers up to its first enter_async_context
Enter(t) ==
    /\ pc = "serving"
    /\ server.tasks[t].pc = "waiting"
    /\ LockFree
    /\ LET task == server.tasks[t]
           entry == resolve_tool_name(registry, task.tool_name)
           unique_names == Unique(entry.value.blueprint.mcp_server_names)
           after == IF entry.kind # "ok"
                    THEN Leave(task, Escaped(entry))
                    ELSE IF task.request.kind \notin {"ok", "None"}
                    THEN Leave(task, Escaped(Raise("ValueError",
                            "The 'request' argument must be a string when provided.")))
                    ELSE IF unique_names = <<>>
                    THEN BeforeRun([task EXCEPT !.entry = entry])
                    ELSE [task EXCEPT !.pc = "acquiring", !.entry = entry,
                                      !.names = unique_names]
       IN  server' = [server EXCEPT !.tasks[t] = after,
                                    !.lock = LockAfter(t, after)]
    /\ UNCHANGED <<payload, pc, config, registry, error, lookup, probe,
                   skill_run, codex_file, envrc, wrapper>>

\* the reverse of a sequence: AsyncExitStack closes last in, first out
Reverse(seq) == [i \in 1..Len(seq) |-> seq[Len(seq) + 1 - i]]

\* a loop that starts an HTTP transport without looking for its token
AcquireStep_TokenUnchecked(task) ==
    LET name == task.names[Len(task.opened) + 1]
        known == DictHas(config.value.mcp_servers, name)
        server_config == DictGet(config.value.mcp_servers, name)
        failed(exc) ==
            [task EXCEPT !.pc = "done",
                         !.start_error = exc,
                         !.outcome = Respond(task.entry.value, exc)]
    IN  IF ~known
        THEN [failed(Raise("InvalidConfiguration",
                           "Agent references unknown MCP server."))
              EXCEPT !.shut = Reverse(task.opened)]
        ELSE IF name \in server.unreachable
        THEN failed(Raise("ConnectionError", "transport failed to start"))
        ELSE IF Len(task.opened) + 1 = Len(task.names)
        THEN BeforeRun([task EXCEPT !.opened = Append(task.opened, name)])
        ELSE [task EXCEPT !.opened = Append(task.opened, name)]

\* one turn of the loop of initialize_mcp_servers, from the lookup of the
\* next name to the return of enter_async_context; on the last name, on to
\* the await of Runner.run. An exception goes through run_agent_workflow,
\* whose try has not been entered, to the except of handle_call_tool.
AcquireStep(task) ==
    LET name == task.names[Len(task.opened) + 1]
        known == DictHas(config.value.mcp_servers, name)
        server_config == DictGet(config.value.mcp_servers, name)
        failed(exc) ==
            [task EXCEPT !.pc = "done",
                         !.start_error = exc,
                         !.outcome = Respond(task.entry.value, exc)]
    IN  IF ~known
        THEN [failed(Raise("InvalidConfiguration",
                           "Agent references unknown MCP server."))
              EXCEPT !.shut = Reverse(task.opened)]
        ELSE IF /\ server_config.type = "http"
                /\ server_config.bearer_token_env_var.kind = "ok"
                /\ server_config.bearer_token_env_var.value \notin server.environ
        THEN failed(Raise("RuntimeError",
                          "Environment variable must be set to start MCP server."))
        ELSE IF name \in server.unreachable
        THEN failed(Raise("ConnectionError", "transport failed to start"))
        ELSE IF Len(task.opened) + 1 = Len(task.names)
        THEN BeforeRun([task EXCEPT !.opened = Append(task.opened, name)])
        ELSE [task EXCEPT !.opened = Append(task.opened, name)]

Acquire(t) ==
    /\ pc = "serving"
    /\ server.tasks[t].pc = "acquiring"
    /\ \E after \in {AcquireStep(server.tasks[t])} :
          server' = [server EXCEPT !.tasks[t] = after,
                                   !.lock = LockAfter(t, after)]
    /\ UNCHANGED <<payload, pc, config, registry, error, lookup, probe,
                   skill_run, codex_file, envrc, wrapper>>

\* await Runner.run(agent, entry) returns a result or raises
RunEnds(t) ==
    /\ pc = "serving"
    /\ server.tasks[t].pc = "running"
    /\ \/ \E result \in RunResults :
             server' = [server EXCEPT !.tasks[t].pc = "closing",
                                      !.tasks[t].run = "returned",
                                      !.tasks[t].run_result = Ok(result)]
       \/ server' = [server EXCEPT !.tasks[t].pc = "closing",
                                   !.tasks[t].run = "raised",
                                   !.tasks[t].run_result =
                                      Raise("RunnerError", "the run failed")]
    /\ UNCHANGED <<payload, pc, config, registry, error, lookup, probe,
                   skill_run, codex_file, envrc, wrapper>>

\* an exit stack that pops nothing and closes its last entry again
NextToShut_AlwaysLast(task) == task.opened[Len(task.opened)]

\* the transport the exit stack closes next
NextToShut(task) == task.opened[Len(task.opened) - Len(task.shut)]

\* finally: await exit_stack.aclose(), one transport per step, last first
Close(t) ==
    /\ pc = "serving"
    /\ server.tasks[t].pc = "closing"
    /\ Len(server.tasks[t].shut) < Len(server.tasks[t].opened)
    /\ LET task == server.tasks[t]
       IN  server' = [server EXCEPT !.tasks[t].shut =
                         Append(task.shut, NextToShut(task))]
    /\ UNCHANGED <<payload, pc, config, registry, error, lookup, probe,
                   skill_run, codex_file, envrc, wrapper>>

\* aclose has returned: run_agent_workflow returns or raises, the handler
\* formats the result or the exception and the lock is released
Return(t) ==
    /\ pc = "serving"
    /\ server.tasks[t].pc = "closing"
    /\ Len(server.tasks[t].shut) = Len(server.tasks[t].opened)
    /\ \E after \in {Leave(server.tasks[t],
                           Respond(server.tasks[t].entry.value,
                                   server.tasks[t].run_result))} :
          server' = [server EXCEPT !.tasks[t] = after,
                                   !.lock = LockAfter(t, after)]
    /\ UNCHANGED <<payload, pc, config, registry, error, lookup, probe,
                   skill_run, codex_file, envrc, wrapper>>

InitServe ==
    /\ payload = ServePayload
    /\ pc = "serving"
    /\ config = ServeConfig
    /\ registry = ServeRegistry.value
    /\ error = NoError
    /\ lookup = NoLookup
    /\ probe = NoProbe
    /\ skill_run = NoSkillRun
    /\ \E variant \in {"mcp_server", "cli"},
          world \in {<<{TokenVar}, {}>>, <<{}, {}>>, <<{TokenVar}, {ApiName}>>} :
          server = [tasks |-> [t \in 1..MaxTasks |-> IdleTask], lock |-> 0,
                    variant |-> variant, environ |-> world[1],
                    unreachable |-> world[2]]
    /\ codex_file = NoCodexFile
    /\ envrc = NoEnvrc
    /\ wrapper = NoWrapper

NextServe ==
    \E t \in 1..MaxTasks :
        \/ Arrive(t)
        \/ Enter(t)
        \/ Acquire(t)
        \/ RunEnds(t)
        \/ Close(t)
        \/ Return(t)

SpecServe == InitServe /\ [][NextServe]_vars

\* a step of a call that has arrived
Progress ==
    \E t \in 1..MaxTasks :
        Enter(t) \/ Acquire(t) \/ RunEnds(t) \/ Close(t) \/ Return(t)

\* The event loop goes on running a task as long as one can go on, and the
\* collaborators (transports, Runner.run) are taken to return or raise.
\* asyncio.Lock wakes its waiters in the order of their arrival; with a
\* bounded number of calls the weaker assumption is enough.
ServeFairness == WF_vars(Progress)

SpecServeFair == SpecServe /\ ServeFairness

----------------------------------------------------------------------------
(* _populate_env_from_envrc (cli.py). os.environ and the JSON object that    *)
(* direnv prints map a variable name to None when the name is absent, else *)
(* to Ok(value); a JSON value is a string or a value of another type.      *)

ApiKeyVar == "OPENAI_API_KEY"
OtherVar == "OTHER"
EnvVars == {ApiKeyVar, OtherVar}
JsonStr(text) == [type |-> "str", value |-> text]
JsonInt == [type |-> "int", value |-> ""]

\* the loop of _load_env_from_direnv: the string values of the JSON object
env_map_of(json_object) ==
    [var \in EnvVars |->
        IF json_object[var].kind = "ok" /\ json_object[var].value.type = "str"
        THEN Ok(json_object[var].value.value)
        ELSE None]

\* _load_env_from_direnv(directory): direnv is what the process finds and
\* gets back: no executable, a non-zero exit, output that is not JSON, a
\* JSON value that is no object, or a JSON object
_load_env_from_direnv(direnv) ==
    IF direnv.outcome = "not_found"
    THEN Raise("RuntimeError", "direnv executable not found in PATH.")
    ELSE IF direnv.outcome = "os_error"
    THEN Raise("OSError", "subprocess.run failed")
    ELSE IF direnv.outcome = "nonzero"
    THEN Raise("RuntimeError", "direnv export failed")
    ELSE IF direnv.outcome = "invalid_json"
    THEN Raise("RuntimeError", "direnv export produced invalid JSON output.")
    ELSE IF direnv.outcome = "not_object"
    THEN Raise("RuntimeError", "direnv export response must be a JSON object.")
    ELSE Ok(env_map_of(direnv.json_object))

\* a loop that copies every key of env_map into os.environ
FillLoop_AllKeys(environ, missing, env_map) ==
    [var \in EnvVars |->
        IF env_map[var].kind = "ok" /\ env_map[var].value # ""
        THEN env_map[var] ELSE environ[var]]

\* `for var in missing`: os.environ[var] = value when env_map has a
\* non-empty value for var
FillLoop(environ, missing, env_map) ==
    [var \in EnvVars |->
        IF var \in missing /\ env_map[var].kind = "ok" /\ env_map[var].value # ""
        THEN env_map[var] ELSE environ[var]]

\* _populate_env_from_envrc(config): os.environ afterwards and the exception
\* that leaves the call, if any
_populate_env_from_envrc(api_key_env_var, environ, envrc_exists, direnv) ==
    LET required == IF api_key_env_var # "" THEN {api_key_env_var} ELSE {}
        missing == {var \in required :
                       environ[var].kind # "ok" \/ environ[var].value = ""}
        env_map == _load_env_from_direnv(direnv)
    IN  IF missing = {} THEN [environ |-> environ, raised |-> NoError]
        ELSE IF ~envrc_exists THEN [environ |-> environ, raised |-> NoError]
        ELSE IF env_map.kind = "RuntimeError"
        THEN [environ |-> environ, raised |-> NoError]
        ELSE IF env_map.kind # "ok" THEN [environ |-> environ, raised |-> env_map]
        ELSE [environ |-> FillLoop(environ, missing, env_map.value),
              raised |-> NoError]

EnvValues == {None, Ok(""), Ok("preexisting")}
JsonValues == {None, Ok(JsonStr("")), Ok(JsonStr("from-envrc")), Ok(JsonInt)}
DirenvOutcomes ==
    {[outcome |-> o, json_object |-> [var \in EnvVars |-> None]] :
        o \in {"not_found", "os_error", "nonzero", "invalid_json", "not_object"}}
      \cup {[outcome |-> "object", json_object |-> j] : j \in [EnvVars -> JsonValues]}

InitEnvrc ==
    /\ payload = UnparseablePayload
    /\ pc = "envrc"
    /\ config = NoConfig
    /\ registry = NoRegistry
    /\ error = NoError
    /\ lookup = NoLookup
    /\ probe = NoProbe
    /\ skill_run = NoSkillRun
    /\ server = NoServer
    /\ codex_file = NoCodexFile
    /\ \E api_key_env_var \in {ApiKeyVar, OtherVar, ""},
          environ \in [EnvVars -> EnvValues],
          envrc_exists \in BOOLEAN,
          direnv \in DirenvOutcomes :
          envrc = [api_key_env_var |-> api_key_env_var, initial |-> environ,
                   environ |-> environ, envrc_exists |-> envrc_exists,
                   direnv |-> direnv, raised |-> NoError]
    /\ wrapper = NoWrapper

\* main calls _populate_env_from_envrc(config) once
PopulateEnv ==
    /\ pc = "envrc"
    /\ pc' = "envrc_done"
    /\ \E after \in {_populate_env_from_envrc(envrc.api_key_env_var, envrc.environ,
                                               envrc.envrc_exists, envrc.direnv)} :
          envrc' = [envrc EXCEPT !.environ = after.environ,
                                 !.raised = after.raised]
    /\ UNCHANGED <<payload, config, registry, error, lookup, probe,
                   skill_run, server, codex_file, wrapper>>

NextEnvrc == PopulateEnv

SpecEnvrc == InitEnvrc /\ [][NextEnvrc]_vars

----------------------------------------------------------------------------
(* The codex MCP wrapper: main (codex_mcp_wrapper.py).                     *)
(* A line of the child is its text between optional white space; the text  *)
(* is empty, no JSON, a JSON object with or without a method, or a JSON     *)
(* value that is no object.                                                *)

MaxLines == 3

CodexEvent == "{method: codex/event}"
Bodies == {"", "not json", CodexEvent, "{method: tools/list}", "{result: 1}",
           "[]", "1", "null"}
Line(body, padded) == [body |-> body, padded |-> padded]

\* line.strip()
strip(line) == line.body

\* json.loads(stripped): the kind of value, and its method when it is an
\* object that has one
json_loads(stripped) ==
    IF stripped = "not json" THEN Raise("JSONDecodeError", "Expecting value")
    ELSE IF stripped = CodexEvent THEN Ok([type |-> "object", method |-> "codex/event"])
    ELSE IF stripped = "{method: tools/list}"
    THEN Ok([type |-> "object", method |-> "tools/list"])
    ELSE IF stripped = "{result: 1}" THEN Ok([type |-> "object", method |-> "None"])
    ELSE IF stripped = "[]" THEN Ok([type |-> "list", method |-> "None"])
    ELSE IF stripped = "1" THEN Ok([type |-> "int", method |-> "None"])
    ELSE Ok([type |-> "NoneType", method |-> "None"])

\* one turn of `for line in process.stdout`: what is printed, and the
\* exception that ends the loop, if any
LoopBody(line) ==
    LET stripped == strip(line)
        payload_ == json_loads(stripped)
    IN  IF stripped = "" THEN [printed |-> <<>>, raised |-> NoError]
        ELSE IF payload_.kind # "ok" THEN [printed |-> <<line>>, raised |-> NoError]
        ELSE IF payload_.value.type # "object"
        THEN [printed |-> <<>>,
              raised |-> Raise("AttributeError", "object has no attribute 'get'")]
        ELSE IF payload_.value.method = "codex/event"
        THEN [printed |-> <<>>, raised |-> NoError]
        ELSE [printed |-> <<line>>, raised |-> NoError]

InitWrapper ==
    /\ payload = UnparseablePayload
    /\ pc = "wrapper"
    /\ config = NoConfig
    /\ registry = NoRegistry
    /\ error = NoError
    /\ lookup = NoLookup
    /\ probe = NoProbe
    /\ skill_run = NoSkillRun
    /\ server = NoServer
    /\ codex_file = NoCodexFile
    /\ envrc = NoEnvrc
    /\ \E n \in 0..MaxLines, returncode \in {0, 1} :
          \E lines \in [1..n -> {Line(b, padded) : b \in Bodies, padded \in BOOLEAN}] :
             wrapper = [lines |-> lines, read |-> 0, stdout |-> <<>>,
                        returncode |-> returncode, waited |-> FALSE,
                        result |-> NoError]

\* the loop reads the next line of the child; an exception of the loop body
\* goes through the finally, which waits for the child, and leaves main
ReadLine ==
    /\ pc = "wrapper"
    /\ wrapper.read < Len(wrapper.lines)
    /\ \E turn \in {LoopBody(wrapper.lines[wrapper.read + 1])} :
          IF turn.raised.kind = "none"
          THEN /\ wrapper' = [wrapper EXCEPT !.read = @ + 1,
                                             !.stdout = @ \o turn.printed]
               /\ pc' = pc
          ELSE /\ wrapper' = [wrapper EXCEPT !.read = @ + 1,
                                             !.waited = TRUE,
                                             !.result = turn.raised]
               /\ pc' = "wrapper_done"
    /\ UNCHANGED <<payload, config, registry, error, lookup, probe,
                   skill_run, server, codex_file, envrc>>

\* the child has closed its stdout: finally waits for it and main returns
\* process.returncode
EndOfOutput ==
    /\ pc = "wrapper"
    /\ wrapper.read = Len(wrapper.lines)
    /\ pc' = "wrapper_done"
    /\ wrapper' = [wrapper EXCEPT !.waited = TRUE,
                                  !.result = Ok(wrapper.returncode)]
    /\ UNCHANGED <<payload, config, registry, error, lookup, probe,
                   skill_run, server, codex_file, envrc>>

NextWrapper == ReadLine \/ EndOfOutput

SpecWrapper == InitWrapper /\ [][NextWrapper]_vars

----------------------------------------------------------------------------
(* configure: configure_codex(config_path, codex_config_path) (cli.py).    *)
(* A file is absent (None) or holds a text, a sequence of characters.      *)

MaxCalls == 3
MaxPieces == 3

NL == "\n"
stanza_header ==
    <<"[","m","c","p","_","s","e","r","v","e","r","s",".","c","o","d","e","x",
    "_","s","u","b","_","a","g","e","n","t","]">>
StanzaCommand ==
    <<"c","o","m","m","a","n","d"," ","="," ","\"","c","o","d","e","x","-",
    "s","u","b","-","a","g","e","n","t","\"","\n">>
StanzaArgsOpen ==
    <<"a","r","g","s"," ","="," ","[","\"","-","-","c","o","n","f","i","g",
    "\"",","," ","\"">>
StanzaArgsClose == <<"\"","]","\n">>
StanzaTimeouts ==
    <<"s","t","a","r","t","u","p","_","t","i","m","e","o","u","t","_","s","e",
    "c"," ","="," ","6","0","\n","c","l","i","e","n","t","_","s","e","s",
    "s","i","o","n","_","t","i","m","e","o","u","t","_","s","e","c","o","n",
    "d","s"," ","="," ","3","6","0","0","\n">>

\* the f-string of the stanza for a resolved config_path
stanza(config_path) ==
    stanza_header \o <<NL>> \o StanzaCommand \o StanzaArgsOpen \o config_path
        \o StanzaArgsClose \o StanzaTimeouts

\* a substring test that looks at the start of the text only
Contains_AtStart(text, sub) == StartsWith(text, sub)

\* sub in text
Contains(text, sub) ==
    \E i \in 1..(Len(text) - Len(sub) + 1) :
        SubSeq(text, i, i + Len(sub) - 1) = sub

\* text.endswith("\n")
EndsWithNewline(text) == text # <<>> /\ text[Len(text)] = NL

AlreadyContains == " already contains the codex_sub_agent stanza."
Added == "Added codex_sub_agent MCP server configuration to "
NotFound == "Configuration file not found: "

\* configure_codex: the exit status, the target file afterwards, what was
\* printed
configure_codex(config_exists, config_path, codex_config_path, file) ==
    IF ~config_exists
    THEN [exit_code |-> 1, file |-> file, report |-> <<NotFound, config_path>>]
    ELSE IF file.kind = "ok"
    THEN IF Contains(file.value, stanza_header)
         THEN [exit_code |-> 0, file |-> file,
               report |-> <<codex_config_path, AlreadyContains>>]
         ELSE [exit_code |-> 0,
               file |-> Ok(file.value
                             \o (IF EndsWithNewline(file.value) THEN <<>> ELSE <<NL>>)
                             \o <<NL>> \o stanza(config_path)),
               report |-> <<Added, codex_config_path>>]
    ELSE [exit_code |-> 0, file |-> Ok(stanza(config_path)),
          report |-> <<Added, codex_config_path>>]

\* what a target file is made of: the header, the header without its
\* closing bracket, a bracket, a letter, a line break
HeaderPrefix == SubSeq(stanza_header, 1, Len(stanza_header) - 1)
Pieces == {stanza_header, HeaderPrefix, <<"]">>, <<"x">>, <<NL>>}
RECURSIVE Joined(_)
Joined(pieces) == IF pieces = <<>> THEN <<>> ELSE Head(pieces) \o Joined(Tail(pieces))
TargetTexts == {Joined(ps) : ps \in UNION {[1..k -> Pieces] : k \in 0..MaxPieces}}
ConfigPaths == {<<"/","c",".","t","o","m","l">>, <<"/","d","/","c",".","t","o","m","l">>}
TargetPath == ".codex/config.toml"

InitConfigure ==
    /\ payload = UnparseablePayload
    /\ pc = "configure"
    /\ config = NoConfig
    /\ registry = NoRegistry
    /\ error = NoError
    /\ lookup = NoLookup
    /\ probe = NoProbe
    /\ skill_run = NoSkillRun
    /\ server = NoServer
    /\ \E config_exists \in BOOLEAN, config_path \in ConfigPaths,
          file \in {None} \cup {Ok(text) : text \in TargetTexts} :
          codex_file = [config_exists |-> config_exists, config_path |-> config_path,
                        initial |-> file, content |-> file, calls |-> 0,
                        exit_code |-> -1, report |-> <<>>]
    /\ envrc = NoEnvrc
    /\ wrapper = NoWrapper

\* one run of `codex-sub-agent configure` on the same two paths
Configure ==
    /\ pc = "configure"
    /\ codex_file.calls < MaxCalls
    /\ \E done \in {configure_codex(codex_file.config_exists, codex_file.config_path,
                                    TargetPath, codex_file.content)} :
          codex_file' = [codex_file EXCEPT !.content = done.file,
                                           !.exit_code = done.exit_code,
                                           !.report = done.report,
                                           !.calls = @ + 1]
    /\ UNCHANGED <<payload, pc, config, registry, error, lookup, probe,
                   skill_run, server, envrc, wrapper>>

NextConfigure == Configure

SpecConfigure == InitConfigure /\ [][NextConfigure]_vars

----------------------------------------------------------------------------
(* Properties.                                                             *)

Built == pc = "built"
Entries == DictValues(registry.tool_entries)
EntryOf(alias) ==
    {i \in 1..Len(Entries) : Entries[i].alias = alias}
CannotDerive == Raise("InvalidConfiguration", "Cannot derive a valid tool name")

\* C1: in a built registry every configured alias has exactly one entry, and
\* the entries of two distinct aliases never carry the same tool name,
\* whichever agents they map to and in whichever order they were declared.
DistinctToolNames ==
    Built =>
        /\ \A a \in DictKeys(config.value.aliases) : Cardinality(EntryOf(a)) = 1
        /\ \A i, j \in 1..Len(Entries) :
              Entries[i].alias # Entries[j].alias =>
                 Entries[i].tool_name # Entries[j].tool_name

\* two aliases that sanitize to the same name: "a!" took a, "a#" took a_2
DistinctToolNamesWitness ==
    /\ Built
    /\ DictKeys(config.value.aliases) = {<<"a","!">>, <<"a","#">>}
    /\ \E i, j \in 1..Len(Entries) :
          /\ Entries[i].alias = <<"a","!">> /\ Entries[i].tool_name = <<"a">>
          /\ Entries[j].alias = <<"a","#">> /\ Entries[j].tool_name = <<"a","_","2">>

\* --- C2 -----------------------------------------------------------------
\* s with every character outside [A-Za-z0-9_-] replaced by "_"
IsReplaced(t, s) ==
    /\ Len(t) = Len(s)
    /\ \A p \in 1..Len(s) :
          (s[p] \in LegalChars /\ t[p] = s[p]) \/ (s[p] \notin LegalChars /\ t[p] = "_")

\* b is s without its leading and trailing underscores
IsTrimmed(b, s) ==
    \E i \in 1..(Len(s) + 1), j \in 0..Len(s) :
        /\ b = SubSeq(s, i, j)
        /\ \A p \in 1..Len(s) : (p < i \/ p > j) => s[p] = "_"
        /\ i <= j => (s[i] # "_" /\ s[j] # "_")

\* r is base when base is unused, else base_k for the smallest k >= 2 that is unused
IsFirstFree(r, base, used) ==
    \/ base \notin used /\ r = base
    \/ /\ base \in used
       /\ \E k \in 2..(Cardinality(used) + 2) :
             /\ r = Suffixed(base, k)
             /\ r \notin used
             /\ \A m \in 2..(k - 1) : Suffixed(base, m) \in used

\* C2: for every alias and every set of used names _make_tool_name returns
\* the alias with each character outside [A-Za-z0-9_-] replaced by "_" and
\* the underscores at both ends trimmed, "agent" if nothing is left, and,
\* when that name is used, the name with _k appended for the smallest
\* k >= 2 that makes it unused.
ToolNameAsSpecified ==
    pc = "probed" =>
        /\ probe.result.kind = "ok"
        /\ \E t \in Strings(ProbeChars \cup {"_"}, Len(probe.alias)) :
              /\ IsReplaced(t, probe.alias)
              /\ \E i \in 1..(Len(t) + 1), j \in 0..Len(t) :
                    /\ IsTrimmed(SubSeq(t, i, j), t)
                    /\ IsFirstFree(probe.result.value,
                                   IF SubSeq(t, i, j) = <<>> THEN AgentLiteral
                                   ELSE SubSeq(t, i, j),
                                   probe.used)

\* "_a!" with a and a_2 used: sanitized, trimmed, and suffixed to a_3
ToolNameAsSpecifiedWitness ==
    /\ pc = "probed"
    /\ probe.alias = <<"_","a","!">>
    /\ probe.used = {<<"a">>, <<"a","_","2">>}
    /\ probe.result = Ok(<<"a","_","3">>)

\* --- C3 -----------------------------------------------------------------
CliEntries == DictValues(registry.cli_aliases)

\* C3: every tool name held by a registry entry, alias-derived or fallback,
\* is non-empty and made of letters, digits, underscore and hyphen only,
\* and construction never raises the 'cannot derive a valid tool name' error.
ToolNamesLegal ==
    /\ error # CannotDerive
    /\ \A e \in {CliEntries[i] : i \in 1..Len(CliEntries)}
               \cup {Entries[i] : i \in 1..Len(Entries)} :
          /\ Len(e.tool_name) > 0
          /\ \A p \in 1..Len(e.tool_name) : e.tool_name[p] \in LegalChars

\* the empty alias and the all-illegal alias were named agent and agent_2,
\* and an agent without alias got a fallback entry
ToolNamesLegalWitness ==
    /\ Built
    /\ \E i, j, k \in 1..Len(CliEntries) :
          /\ CliEntries[i].alias = <<>> /\ CliEntries[i].tool_name = AgentLiteral
          /\ CliEntries[j].alias = <<"!">>
          /\ CliEntries[j].tool_name = AgentLiteral \o <<"_","2">>
          /\ ~CliEntries[k].expose_in_tools

\* --- C4 -----------------------------------------------------------------
\* C4: every descriptor of tool_definitions resolves through
\* resolve_tool_name to an entry whose tool_name is the descriptor's name,
\* and a resolve_tool_name call on such a name has returned that entry.
ToolDefinitionsRoundTrip ==
    Built =>
        /\ \A i \in 1..Len(registry.tool_definitions) :
              LET name == registry.tool_definitions[i].name
                  r == resolve_tool_name(registry, name)
              IN  r.kind = "ok" /\ r.value.tool_name = name
        /\ Len(registry.tool_definitions) = Len(config.value.aliases)
        /\ (/\ lookup.op = "resolve_tool_name"
            /\ \E i \in 1..Len(registry.tool_definitions) :
                  registry.tool_definitions[i].name = lookup.arg)
           => (lookup.result.kind = "ok" /\ lookup.result.value.tool_name = lookup.arg)

\* the suffixed name a_2 of a two-tool registry was resolved
ToolDefinitionsRoundTripWitness ==
    /\ Built
    /\ Len(registry.tool_definitions) = 2
    /\ registry.tool_definitions[2].name = <<"a","_","2">>
    /\ lookup.op = "resolve_tool_name"
    /\ lookup.arg = <<"a","_","2">>
    /\ lookup.result.kind = "ok"
    /\ lookup.result.value.tool_name = <<"a","_","2">>

\* --- C5 -----------------------------------------------------------------
ConfiguredAgentIds == DictKeys(_agent_map(config.value))

\* C5: every configured agent id X, with or without aliases, resolves
\* through resolve_cli_alias to an entry whose blueprint.agent_id is X.
EveryAgentReachable ==
    Built =>
        \A X \in ConfiguredAgentIds :
            LET r == resolve_cli_alias(registry, X)
            IN  r.kind = "ok" /\ r.value.blueprint.agent_id = X

\* --- C6 -----------------------------------------------------------------
\* C6: for every alias entry e, resolve_cli_alias(e.alias) and
\* resolve_cli_alias(e.tool_name) both return e, so that resolve_cli_alias
\* agrees with resolve_tool_name on every exposed tool name.
CliTableKeyedByBoth ==
    Built =>
        \A i \in 1..Len(Entries) :
            /\ resolve_cli_alias(registry, Entries[i].alias) = Ok(Entries[i])
            /\ resolve_cli_alias(registry, Entries[i].tool_name) = Ok(Entries[i])
            /\ resolve_cli_alias(registry, Entries[i].tool_name)
                  = resolve_tool_name(registry, Entries[i].tool_name)

\* --- C7 -----------------------------------------------------------------
ZeroAliases == payload.parses /\ payload.aliases = <<>>
NoAliasesDefined == Raise("InvalidConfiguration", "No aliases defined in [aliases].")
SomeAlias == << <<(<<"a">>), <<"a">>>> >>

\* C7, as claimed: load_config on a root file whose aliases table is empty
\* or absent raises InvalidConfiguration, however many agents are defined.
ZeroAliasesFailAtLoad ==
    (ZeroAliases /\ pc # "start") =>
        (pc = "load_failed" /\ error.kind = "InvalidConfiguration")

\* C7, amended: load_config does not look at the aliases table (it fails on
\* a zero-alias root file only where it also fails once an alias is added);
\* the zero-alias configuration it returns is rejected by AgentRegistry
\* construction with InvalidConfiguration, however many agents are defined,
\* so start-up never yields a registry.
ZeroAliasesFailAtStartup ==
    ZeroAliases =>
        /\ pc # "built"
        /\ pc = "build_failed" => error.kind = "InvalidConfiguration"
        /\ pc = "load_failed" =>
              load_config([payload EXCEPT !.aliases = SomeAlias]) = error

\* a zero-alias root file with two agents was loaded and then rejected
ZeroAliasesFailAtStartupWitness ==
    /\ ZeroAliases
    /\ pc = "build_failed"
    /\ Len(config.value.agents) = 2
    /\ error = NoAliasesDefined

\* --- C8 -----------------------------------------------------------------
Constructed == pc \in {"built", "build_failed"}

\* C8: AgentRegistry construction from a configuration with at least one
\* agent and an empty alias table raises InvalidConfiguration ("No aliases
\* defined") and leaves no registry, however many agents there are.
EmptyAliasTableRejected ==
    (/\ Constructed
     /\ Len(_agent_map(config.value)) >= 1
     /\ config.value.aliases = <<>>)
    => (pc = "build_failed" /\ error = NoAliasesDefined /\ registry = NoRegistry)

\* construction was refused for one agent (here the legacy one) without alias
EmptyAliasTableRejectedWitness ==
    /\ pc = "build_failed"
    /\ config.value.aliases = <<>>
    /\ DictKeys(_agent_map(config.value)) = {LegacyAgentId}
    /\ error = NoAliasesDefined
    /\ registry = NoRegistry

\* --- C9 -----------------------------------------------------------------
Loaded == pc \in {"loaded", "resolved", "built", "build_failed"}
MissingCodex == Raise("InvalidConfiguration", "Missing required MCP server 'codex'.")
\* the payload handed to model_validate, when the agent directories loaded
MergedPayload ==
    LET merged == IF payload.agent_files_type # "list" \/ payload.agent_files = <<>>
                  THEN Ok(payload.agents)
                  ELSE AgentFilesLoop(payload.agents, payload.agent_files, 1)
    IN  IF merged.kind = "ok"
        THEN Ok(WithDefaultAgentId([payload EXCEPT !.agents = merged.value]))
        ELSE merged

\* C9: every configuration load_config returns has a transport keyed
\* "codex"; a root file without it is refused with InvalidConfiguration,
\* schema-valid or not; and the missing-codex error is raised only for a
\* payload that has passed schema validation.
CodexTransportRequired ==
    /\ Loaded => DictHas(config.value.mcp_servers, CodexName)
    /\ (pc # "start" /\ payload.parses /\ ~DictHas(payload.mcp_servers, CodexName))
          => (pc = "load_failed" /\ error.kind = "InvalidConfiguration")
    /\ (pc = "load_failed" /\ error = MissingCodex)
          => (/\ MergedPayload.kind = "ok"
              /\ model_validate(MergedPayload.value).kind = "ok"
              /\ ~DictHas(payload.mcp_servers, CodexName))

\* a schema-valid root file with an agent, an alias and only the "docs"
\* transport was refused for the missing codex transport
CodexTransportRequiredWitness ==
    /\ pc = "load_failed"
    /\ error = MissingCodex
    /\ payload.default_api = "responses"
    /\ Len(payload.agents) = 1
    /\ Len(payload.aliases) = 1
    /\ DictKeys(payload.mcp_servers) = {DocsName}

\* --- C10 ----------------------------------------------------------------
DanglingAlias ==
    \E i \in 1..Len(config.value.aliases) :
        config.value.aliases[i][2] \notin ConfiguredAgentIds

\* C10: an alias whose target is not a configured agent makes AgentRegistry
\* construction fail with InvalidConfiguration, so no registry is built.
DanglingAliasRejected ==
    (Constructed /\ DanglingAlias) =>
        (pc = "build_failed" /\ error.kind = "InvalidConfiguration")

\* --- C11 ----------------------------------------------------------------
AliasTargetsConfigured ==
    \A i \in 1..Len(config.value.aliases) :
        config.value.aliases[i][2] \in ConfiguredAgentIds
NoAgentsDefined ==
    Raise("InvalidConfiguration", "Configuration must define at least one agent.")
DanglingDefault ==
    /\ Truthy(config.value.default_agent_id)
    /\ config.value.default_agent_id.value \notin ConfiguredAgentIds
ResolvedDefault == pc = "resolved" /\ lookup.op = "resolve_agent(None)"

ResolveAgentDefault ==
    (ResolvedDefault /\ ConfiguredAgentIds # {}) =>
        LET agents == _agent_map(config.value)
            d == config.value.default_agent_id
            r == lookup.result
        IN  /\ (d.kind = "ok" /\ d.value \in ConfiguredAgentIds) =>
                  r = Ok(<<d.value, DictGet(agents, d.value)>>)
            /\ d.kind = "None" =>
                  /\ r.kind = "ok"
                  /\ r.value[1] \in ConfiguredAgentIds
                  /\ \A other \in ConfiguredAgentIds : ~StrLess(other, r.value[1])
                  /\ r.value[2] = DictGet(agents, r.value[1])

\* without a default, "a!" was chosen although "a#" was declared first
ResolveAgentDefaultWitness ==
    /\ ResolvedDefault
    /\ config.value.default_agent_id = None
    /\ Len(config.value.agents) = 2
    /\ config.value.agents[1][1] = <<"a","#">>
    /\ config.value.agents[2][1] = <<"a","!">>
    /\ lookup.result.kind = "ok"
    /\ lookup.result.value[1] = <<"a","!">>

\* --- C13 ----------------------------------------------------------------
\* a text, held as its lines, that is empty once trimmed
BlankText(lines) == \A i \in 1..Len(lines) : IsBlank(lines[i])

\* C13: every agent of a configuration returned by load_config (inline,
\* legacy or loaded from a directory) has a name, instructions and a
\* default_prompt that are non-empty after trimming.
AgentTextsNonEmpty ==
    Loaded =>
        \A i \in 1..Len(_agent_map(config.value)) :
            LET settings == _agent_map(config.value)[i][2]
            IN  /\ ~IsBlank(settings.name)
                /\ ~BlankText(settings.instructions)
                /\ ~BlankText(settings.default_prompt)

\* --- C20 ----------------------------------------------------------------
SkillsRun == pc = "skills_done"
SkillDirs(agent_path) ==
    IF agent_path.skills.kind = "ok"
    THEN {e \in agent_path.skills.value : e.is_dir}
    ELSE {}

\* a manifest line that is neither blank nor a comment
Declares(line) == ~IsBlank(line) /\ Head(StripWs(line)) # "#"
KeyOf(line) == StripWs(SubSeq(StripWs(line), 1, FirstColon(StripWs(line)) - 1))
ValueOf(line) ==
    _strip_quotes(SubSeq(StripWs(line), FirstColon(StripWs(line)) + 1,
                         Len(StripWs(line))))
\* the value the manifest lines give to a key: that of the last line naming it
Declared(lines, key) ==
    \E i \in 1..Len(lines) :
        /\ Declares(lines[i]) /\ KeyOf(lines[i]) = key /\ ValueOf(lines[i]) # <<>>
        /\ \A j \in (i + 1)..Len(lines) :
              ~(Declares(lines[j]) /\ KeyOf(lines[j]) = key)

\* the conditions under which a SKILL.md is a skill
WellFormedSkillFile(content) ==
    \E open \in 1..Len(content) :
        /\ \A i \in 1..(open - 1) : IsBlank(content[i])
        /\ IsDelimiter(content[open])
        /\ \E close \in (open + 1)..Len(content) :
              /\ IsDelimiter(content[close])
              /\ \A i \in (open + 1)..(close - 1) :
                    /\ ~IsDelimiter(content[i])
                    /\ Declares(content[i]) => HasColon(content[i])
              /\ Declared(SubSeq(content, open + 1, close - 1), NameKey)
              /\ Declared(SubSeq(content, open + 1, close - 1), DescriptionKey)
              /\ \E i \in (close + 1)..Len(content) : ~IsBlank(content[i])

Accepted(skill_dir) ==
    skill_dir.skill_md.kind = "ok" /\ WellFormedSkillFile(skill_dir.skill_md.value)

NoText(file) == file.kind # "ok" \/ BlankText(file.value)

\* an mcp_servers value that is neither a list of non-blank strings nor a
\* table with non-blank keys
BadServers(raw) ==
    /\ raw.kind = "ok"
    /\ \/ raw.value.type \notin {"list", "table"}
       \/ /\ raw.value.type = "list"
          /\ \E i \in 1..Len(raw.value.value) :
                \/ raw.value.value[i].type # "str"
                \/ IsBlank(raw.value.value[i].value)
       \/ /\ raw.value.type = "table"
          /\ \E i \in 1..Len(raw.value.value) : IsBlank(raw.value.value[i][1])

\* the mcp_servers value that counts for an agent directory
ServersOf(dir) ==
    IF dir.mcp_servers.kind # "ok" /\ dir.agent = "table"
    THEN dir.top_mcp_servers ELSE dir.mcp_servers

\* an agent_files entry that cannot be loaded
BadEntry(dir) ==
    \/ ~dir.is_str
    \/ ~dir.is_dir
    \/ dir.toml # "ok"
    \/ dir.id.kind # "ok" \/ dir.id.value = <<>>
    \/ dir.agent \notin {"absent", "table"}
    \/ BadServers(ServersOf(dir))
    \/ NoText(dir.instructions_md)
    \/ NoText(dir.default_prompt_md)
    \/ \E d \in SkillDirs(dir) : ~Accepted(d)

\* agent_files is a non-empty list, the only value the loader walks
FilesRead == payload.agent_files_type = "list" /\ payload.agent_files # <<>>

\* some agent id is defined twice
DuplicateId ==
    \/ \E i \in 1..Len(payload.agent_files) :
          DictHas(payload.agents, payload.agent_files[i].id.value)
    \/ \E i, j \in 1..Len(payload.agent_files) :
          i # j /\ payload.agent_files[i].id.value = payload.agent_files[j].id.value

SchemaViolation ==
    \/ payload.default_api \notin ApiFlavors
    \/ payload.agents_type # "table"
    \/ payload.agent.kind = "ok" /\ ~SettingsValid(payload.agent.value)
    \/ \E i \in 1..Len(payload.agents) : ~SettingsValid(payload.agents[i][2])
    \/ FilesRead /\ \E i \in 1..Len(payload.agent_files) :
                       payload.agent_files[i].name.kind # "ok"

\* the failures of the pipeline
LoadDefect ==
    \/ ~payload.parses
    \/ payload.agent_files_type = "truthy"
    \/ FilesRead /\ payload.agents_type # "table"
    \/ FilesRead /\ \E i \in 1..Len(payload.agent_files) :
                       BadEntry(payload.agent_files[i])
    \/ FilesRead /\ DuplicateId
    \/ SchemaViolation
    \/ ~DictHas(payload.mcp_servers, CodexName)

LoadedIds == DictKeys(config.value.agents)
DeclaredIds ==
    DictKeys(payload.agents)
        \cup (IF FilesRead
              THEN {payload.agent_files[i].id.value :
                       i \in 1..Len(payload.agent_files)}
              ELSE {})

Finished == {t \in 1..MaxTasks : server.tasks[t].pc = "done"
                                  /\ server.tasks[t].entry.kind = "ok"
                                  /\ server.tasks[t].outcome.kind = "result"}
ShutCount(task, name) ==
    Cardinality({i \in 1..Len(task.shut) : task.shut[i] = name})
Opened(task) == {task.opened[i] : i \in 1..Len(task.opened)}

\* C15: once run_agent_workflow has returned or raised, every transport
\* that was opened for the run has been shut down, also when acquisition
\* failed part-way.
TransportsReleased ==
    \A t \in Finished :
        \A name \in Opened(server.tasks[t]) :
            ShutCount(server.tasks[t], name) >= 1

\* --- C16 ----------------------------------------------------------------
Requested(task) ==
    {task.entry.value.blueprint.mcp_server_names[i] :
        i \in 1..Len(task.entry.value.blueprint.mcp_server_names)}
\* the call got as far as the try of run_agent_workflow
Initialized(task) == task.run # "none" \/ task.run_result.kind # "none"

InWorkflow(t) == server.tasks[t].pc \in {"acquiring", "running", "closing"}

\* C17: at most one task is inside the agent workflow (transport start,
\* run, transport shutdown) at any time, it is the holder of the lock, and
\* every other task is still to begin or has left with its result.
OneWorkflowAtATime ==
    \A t \in 1..MaxTasks :
        InWorkflow(t) =>
            /\ server.lock = t
            /\ \A u \in 1..MaxTasks \ {t} :
                  \/ server.tasks[u].pc \in {"idle", "waiting"}
                  \/ /\ server.tasks[u].pc = "done"
                     /\ server.tasks[u].outcome.kind # "none"

\* one call waits at the lock while the run of another is under way
OneWorkflowAtATimeWitness ==
    \E t, u \in 1..MaxTasks :
        /\ server.tasks[t].pc = "running"
        /\ server.tasks[u].pc = "waiting"

\* --- C18 ----------------------------------------------------------------
\* the call is over and had reached the try of handle_call_tool
Dispatched(task) ==
    task.pc = "done" /\ task.entry.kind = "ok" /\ task.request.kind \in {"ok", "None"}
Succeeded(task) ==
    /\ task.run = "returned"
    /\ task.run_result.kind = "ok"
    /\ \/ ~IsBlank(task.run_result.value.final_output.value)
       \/ task.run_result.value.last_agent # "nameless"

TransportStartFailed(task) ==
    Dispatched(task) /\ ~Initialized(task) /\ task.outcome.isError
HeaderCount(file) ==
    IF file.kind # "ok" THEN 0
    ELSE Cardinality({i \in 1..(Len(file.value) - Len(stanza_header) + 1) :
                         SubSeq(file.value, i, i + Len(stanza_header) - 1)
                            = stanza_header})
Succeeded0 == codex_file.calls > 0 /\ codex_file.exit_code = 0

\* C19: a configure call that follows a successful one on the same target
\* leaves the file as it is, returns 0 and reports that the file already
\* contains the stanza; and configure never raises the number of stanza
\* headers in the file above one.
ConfigureIdempotent ==
    /\ [][Succeeded0 =>
             /\ codex_file'.content = codex_file.content
             /\ codex_file'.exit_code = 0
             /\ codex_file'.report = <<TargetPath, AlreadyContains>>]_vars
    /\ [](Succeeded0 =>
             /\ codex_file.content.kind = "ok"
             /\ HeaderCount(codex_file.content)
                   = (IF HeaderCount(codex_file.initial) = 0 THEN 1
                      ELSE HeaderCount(codex_file.initial)))

\* the first call appended the stanza to a file that ended in the header
\* without its bracket, and two more calls left that file alone
ConfigureIdempotentWitness ==
    /\ codex_file.calls = MaxCalls
    /\ codex_file.initial.kind = "ok"
    /\ codex_file.initial.value = <<"x">> \o HeaderPrefix
    /\ codex_file.content.value
          = codex_file.initial.value \o <<NL, NL>> \o stanza(codex_file.config_path)
    /\ codex_file.report = <<TargetPath, AlreadyContains>>
    /\ codex_file.exit_code = 0

\* --- C21 ----------------------------------------------------------------
\* the directory a loaded skill came from
DirOf(skill) == CHOOSE d \in SkillDirs(skill_run.dir) : d.slug = skill.slug
\* the files under a skill directory other than its own manifest file
OtherFiles(skill_dir) == {f \in skill_dir.files : f.path # <<ManifestName>>}
AscendingPaths(attachments) ==
    \A i \in 1..(Len(attachments) - 1) :
        PathLess(attachments[i].relative_path, attachments[i + 1].relative_path)

\* C21: the attachments of every loaded skill are exactly the files under the
\* skill directory, at any depth, other than <skill_dir>/SKILL.md, in
\* ascending path order; a file in a nested directory is an attachment
\* whatever its name.
AttachmentsAreAllOtherFiles ==
    (SkillsRun /\ skill_run.result.kind = "ok") =>
        \A i \in 1..Len(skill_run.result.value) :
            LET skill == skill_run.result.value[i]
            IN  /\ {skill.attachments[k].relative_path :
                        k \in 1..Len(skill.attachments)}
                      = {f.path : f \in OtherFiles(DirOf(skill))}
                /\ Len(skill.attachments) = Cardinality(OtherFiles(DirOf(skill)))
                /\ AscendingPaths(skill.attachments)

\* --- C22 ----------------------------------------------------------------
\* the task went through the acquisition of its transports to the point
\* where run_agent_workflow hands a prompt to the runner
ReachedRun(task) ==
    /\ task.entry.kind = "ok"
    /\ task.pc \in {"running", "closing", "done"}
    /\ Len(task.opened) = Len(task.names)

\* C22: the prompt handed to the runner is the override when one is supplied
\* and the agent's default_prompt otherwise, in the mcp_server workflow and
\* in the workflow of cli.py alike, and a run without an override never
\* fails for lack of a prompt.
PromptIsOverrideOrDefault ==
    \A t \in 1..MaxTasks :
        LET task == server.tasks[t]
        IN  ReachedRun(task) =>
               /\ task.run # "none"
               /\ task.prompt
                     = Ok(IF task.request.kind = "ok" THEN task.request.value
                          ELSE task.entry.value.blueprint.settings.default_prompt)

\* --- C23 ----------------------------------------------------------------
\* the character a slug character becomes in a tool name
SlugChar(c) == IF c \in LegalChars THEN c ELSE "_"
\* skill_<sanitized slug>: the slug with every other character replaced by
\* an underscore, cut from its first to its last character that is not an
\* underscore, "skill" when nothing is left, behind one skill_ prefix
IsDerivedToolName(name, slug) ==
    LET kept == {k \in 1..Len(slug) : SlugChar(slug[k]) # "_"}
        body == IF kept = {} THEN SkillLiteral
                ELSE LET lo == CHOOSE k \in kept : \A m \in kept : k <= m
                         hi == CHOOSE k \in kept : \A m \in kept : k >= m
                     IN  [k \in 1..(hi - lo + 1) |-> SlugChar(slug[lo + k - 1])]
    IN  name = IF StartsWith(body, SkillPrefix) THEN body ELSE SkillPrefix \o body

\* C23: the agent a run builds from a blueprint whose settings carry skills
\* has one function tool per skill, named by the skill's derived tool name,
\* in the workflow of mcp_server.py and in that of cli.py alike.
OneToolPerSkill ==
    \A t \in 1..MaxTasks :
        LET task == server.tasks[t]
        IN  task.agent.kind = "ok" =>
               LET skills == task.entry.value.blueprint.settings.skills
                   tools == task.agent.value.tools
               IN  /\ Len(tools) = Len(skills)
                   /\ \A i \in 1..Len(skills) :
                         IsDerivedToolName(tools[i], skills[i].slug)

\* --- C24 ----------------------------------------------------------------
\* the fallback (CLI-only) entries of the registry
FallbackEntries ==
    {CliEntries[i] : i \in {k \in 1..Len(CliEntries) : ~CliEntries[k].expose_in_tools}}
DescriptorsNamed(name) ==
    {i \in 1..Len(registry.tool_definitions) : registry.tool_definitions[i].name = name}

\* C24: tool_definitions of a built registry holds exactly one descriptor per
\* configured alias and none for a fallback entry, in strictly ascending
\* tool-name order, and resolve_tool_name never accepts the tool name of a
\* fallback entry.
ToolDefinitionsExact ==
    Built =>
        /\ Len(registry.tool_definitions) = Len(config.value.aliases)
        /\ \A a \in DictKeys(config.value.aliases) :
              \E i \in EntryOf(a) :
                 Cardinality(DescriptorsNamed(Entries[i].tool_name)) = 1
        /\ \A e \in FallbackEntries :
              /\ DescriptorsNamed(e.tool_name) = {}
              /\ resolve_tool_name(registry, e.tool_name).kind = "InvalidConfiguration"
        /\ \A i \in 1..(Len(registry.tool_definitions) - 1) :
              StrLess(registry.tool_definitions[i].name,
                      registry.tool_definitions[i + 1].name)

\* aliases "" and "a" declared in that order are listed as a, agent, and the
\* agent "a!" that no alias names has the fallback entry a_2
ToolDefinitionsExactWitness ==
    /\ Built
    /\ Len(config.value.aliases) = 2
    /\ config.value.aliases[1][1] = <<>>
    /\ config.value.aliases[2][1] = <<"a">>
    /\ registry.tool_definitions[1].name = <<"a">>
    /\ registry.tool_definitions[2].name = AgentLiteral
    /\ \E e \in FallbackEntries :
          e.alias = <<"a","!">> /\ e.tool_name = <<"a","_","2">>

\* --- C25 ----------------------------------------------------------------
EnvrcRun == pc = "envrc_done"
\* a variable that has a non-empty value in the environment
IsSet(environ, var) == environ[var].kind = "ok" /\ environ[var].value # ""
\* the variables _populate_env_from_envrc requires
RequiredVars == {envrc.api_key_env_var} \ {""}
\* the non-empty string that direnv exported for a variable, if any
Supplied(var) ==
    /\ envrc.envrc_exists
    /\ envrc.direnv.outcome = "object"
    /\ envrc.direnv.json_object[var].kind = "ok"
    /\ envrc.direnv.json_object[var].value.type = "str"
    /\ envrc.direnv.json_object[var].value.value # ""

\* C25: _populate_env_from_envrc leaves a required variable that has a
\* non-empty value as it is, sets a missing required variable to the
\* non-empty value the helper supplies for it, writes no other key of the
\* helper's map, and leaves the environment as it is when the helper fails
\* or there is no .envrc.
OnlyMissingRequiredFilled ==
    EnvrcRun =>
        \A var \in EnvVars :
            IF var \in RequiredVars /\ ~IsSet(envrc.initial, var) /\ Supplied(var)
            THEN envrc.environ[var] = Ok(envrc.direnv.json_object[var].value.value)
            ELSE envrc.environ[var] = envrc.initial[var]

\* the missing key was filled from a map that also offered a value for a
\* variable that is not required and was not set
OnlyMissingRequiredFilledWitness ==
    /\ EnvrcRun
    /\ envrc.api_key_env_var = ApiKeyVar
    /\ envrc.initial[ApiKeyVar] = Ok("")
    /\ envrc.initial[OtherVar] = None
    /\ Supplied(OtherVar)
    /\ envrc.environ[ApiKeyVar] = Ok("from-envrc")
    /\ envrc.environ[OtherVar] = None

\* --- C26 ----------------------------------------------------------------
\* C26: with no explicit id, resolve_agent returns the agent default_agent_id
\* names when it is set and names a configured agent, and in every other
\* case, unset or naming no configured agent, the lexicographically smallest
\* agent id; it fails only when no agent exists at all.
ResolveAgentFallsBack ==
    ResolvedDefault =>
        IF ConfiguredAgentIds = {}
        THEN lookup.result.kind = "InvalidConfiguration"
        ELSE /\ lookup.result.kind = "ok"
             /\ lookup.result.value[1]
                   = (IF /\ Truthy(config.value.default_agent_id)
                         /\ config.value.default_agent_id.value \in ConfiguredAgentIds
                      THEN config.value.default_agent_id.value
                      ELSE SmallestKey(_agent_map(config.value)))

\* --- C27 ----------------------------------------------------------------
\* the transports a call has to start, in the order of their start
ToStart(task) == Unique(task.entry.value.blueprint.mcp_server_names)
UnknownTransport(name) == ~DictHas(config.value.mcp_servers, name)
TokenMissing(name) ==
    /\ DictHas(config.value.mcp_servers, name)
    /\ DictGet(config.value.mcp_servers, name).type = "http"
    /\ DictGet(config.value.mcp_servers, name).bearer_token_env_var.kind = "ok"
    /\ DictGet(config.value.mcp_servers, name).bearer_token_env_var.value
          \notin server.environ
\* the positions of the transports of a call that cannot be started
CannotStart(task) ==
    LET names == ToStart(task)
    IN  {i \in 1..Len(names) :
            \/ names[i] \in server.unreachable
            \/ UnknownTransport(names[i])
            \/ TokenMissing(names[i])}
FirstFailure(task) == CHOOSE i \in CannotStart(task) : \A k \in CannotStart(task) : i <= k
\* a configured agent that names a transport missing from the transport map,
\* and one that names an HTTP transport with a bearer-token variable
NamesUnknownTransport(settings) ==
    \E i \in 1..Len(settings.mcp_servers) : UnknownTransport(settings.mcp_servers[i])
NamesTokenTransport(settings) ==
    \E i \in 1..Len(settings.mcp_servers) :
        /\ DictHas(config.value.mcp_servers, settings.mcp_servers[i])
        /\ DictGet(config.value.mcp_servers, settings.mcp_servers[i]).type = "http"
        /\ DictGet(config.value.mcp_servers,
                   settings.mcp_servers[i]).bearer_token_env_var.kind = "ok"

\* C27: load_config and the construction of the registry succeed for agents
\* that name a transport missing from the transport map or an HTTP transport
\* whose bearer-token variable is unset; the failure is raised only when a
\* call of that agent starts its transports, InvalidConfiguration for the
\* unknown name and RuntimeError for the missing variable, after the
\* transports before it have been started; a call of an agent whose
\* transports can all be started starts them all and raises no such error.
TransportsCheckedLazily ==
    /\ ServeConfig.kind = "ok"
    /\ ServeRegistry.kind = "ok"
    /\ payload = ServePayload /\ config = ServeConfig
    /\ registry = ServeRegistry.value
    /\ \A t \in 1..MaxTasks :
          LET task == server.tasks[t]
              names == ToStart(task)
              cannot == CannotStart(task)
              first == FirstFailure(task)
          IN  /\ task.start_error.kind # "none" =>
                    /\ task.pc = "done"
                    /\ task.entry.kind = "ok"
                    /\ cannot # {}
              /\ Dispatched(task) =>
                    IF cannot = {}
                    THEN /\ task.start_error = NoError
                         /\ task.opened = names
                    ELSE /\ task.opened = SubSeq(names, 1, first - 1)
                         /\ task.start_error.kind =
                               (IF UnknownTransport(names[first])
                                THEN "InvalidConfiguration"
                                ELSE IF TokenMissing(names[first])
                                THEN "RuntimeError"
                                ELSE "ConnectionError")
    /\ (\E t \in 1..MaxTasks : server.tasks[t].start_error.kind # "none") =>
          /\ \E i \in 1..Len(config.value.agents) :
                NamesUnknownTransport(config.value.agents[i][2])
          /\ \E i \in 1..Len(config.value.agents) :
                NamesTokenTransport(config.value.agents[i][2])

\* with the token variable unset, a call of the agent that names the unknown
\* transport raised InvalidConfiguration, a call of the agent that names the
\* HTTP transport raised RuntimeError
TransportsCheckedLazilyWitness ==
    /\ server.environ = {}
    /\ \E t, u \in 1..MaxTasks :
          /\ server.tasks[t].pc = "done"
          /\ server.tasks[t].tool_name = <<"c">>
          /\ server.tasks[t].start_error.kind = "InvalidConfiguration"
          /\ server.tasks[t].opened = <<CodexName>>
          /\ server.tasks[u].pc = "done"
          /\ server.tasks[u].tool_name = <<"b">>
          /\ server.tasks[u].start_error.kind = "RuntimeError"

\* --- C28 ----------------------------------------------------------------
\* the entries reachable through the CLI lookup table
CliReachable == {CliEntries[i] : i \in 1..Len(CliEntries)}

\* C28: in a built registry any two distinct entries of the CLI lookup table,
\* alias entries and fallback entries alike, have different tool names, and
\* resolve_cli_alias of an entry's tool name returns that entry.
CliToolNamesDistinct ==
    Built =>
        /\ \A e, f \in CliReachable : e # f => e.tool_name # f.tool_name
        /\ \A e \in CliReachable : resolve_cli_alias(registry, e.tool_name) = Ok(e)

\* --- C29 ----------------------------------------------------------------
\* C29: the tool lock is held only by a call that is inside the workflow, so
\* it is free whenever a call has left, with a result, a failure, an
\* unknown tool name or a request that is no string, and free once every
\* call has finished; and a call that waits for the lock is eventually
\* served when every running workflow terminates.
GateAlwaysReleased ==
    /\ [](\A t \in 1..MaxTasks :
             /\ server.lock = t => InWorkflow(t)
             /\ InWorkflow(t) => server.lock = t)
    /\ []((\A t \in 1..MaxTasks : server.tasks[t].pc \in {"idle", "done"})
             => server.lock = 0)
    /\ \A t \in 1..MaxTasks :
          (server.tasks[t].pc = "waiting") ~> (server.tasks[t].pc = "done")

\* a call for an unknown tool and a call whose run raised have both left,
\* and the lock is free
GateAlwaysReleasedWitness ==
    /\ server.lock = 0
    /\ \E t, u \in 1..MaxTasks :
          /\ server.tasks[t].pc = "done"
          /\ server.tasks[t].outcome.kind = "escaped"
          /\ server.tasks[u].pc = "done"
          /\ server.tasks[u].run = "raised"
          /\ server.tasks[u].outcome.isError

\* --- C30 ----------------------------------------------------------------
WrapperDone == pc = "wrapper_done"
\* a line the wrapper is to drop: blank, or a codex/event message
Dropped(line) == line.body = "" \/ line.body = CodexEvent
\* the lines of a sequence that are to be forwarded, in their order
RECURSIVE Forwarded(_)
Forwarded(lines) ==
    IF lines = <<>> THEN <<>>
    ELSE IF Dropped(Head(lines)) THEN Forwarded(Tail(lines))
    ELSE <<Head(lines)>> \o Forwarded(Tail(lines))

\* C30: the wrapper forwards to its stdout, unchanged and in their order,
\* every line of the child that is not blank and not a codex/event message,
\* lines that are no JSON and JSON values that are no objects included, drops
\* exactly the blank lines and the codex/event messages, and on every exit
\* path waits for the child and returns its exit code.
WrapperForwardsAll ==
    /\ pc = "wrapper" =>
          wrapper.stdout = Forwarded(SubSeq(wrapper.lines, 1, wrapper.read))
    /\ WrapperDone =>
          /\ wrapper.stdout = Forwarded(wrapper.lines)
          /\ wrapper.waited
          /\ wrapper.result = Ok(wrapper.returncode)

====
